---- MODULE Spec2Model ----
(***************************************************************************)
(* Model of odata_v4_query: the $filter tokenizer (filter_tokenizer.py),   *)
(* the precedence-climbing filter parser with its AST evaluator and parse  *)
(* cache (filter_parser.py).                                               *)
(*                                                                         *)
(* Text is a sequence of one-character strings; Python's 0-based offsets   *)
(* are kept, so the character at offset p of expr is expr[p + 1].          *)
(***************************************************************************)
EXTENDS Integers, Sequences, FiniteSets, TLC

VARIABLES
    operators,  \* ODataFilterTokenizer.__operators of the parser's tokenizer
    functions,  \* ODataFilterTokenizer.__functions of the parser's tokenizer
    lexemes,    \* the words the input expression was assembled from (<<>>: raw text)
    expr,       \* the expression of the current call
    pc,         \* position of the scenario
    tok_out,    \* outcome of ODataFilterTokenizer.tokenize(expr)
    ast,        \* outcome of ODataFilterParser.parse(expr)
    text,       \* outcome of ODataFilterParser.evaluate(ast.node)
    ast2,       \* outcome of ODataFilterParser.parse(text.text)
    cache,      \* the lru_cache of ODataFilterParser.parse, least recently used first
    calls,      \* number of parse calls made so far
    supported_formats,  \* ODataQueryParser.__supported_formats
    query_params,       \* the mapping handed to parse_query_params, in iteration order
    options,            \* outcome of ODataQueryParser.parse_query_params(query_params)
    attrs,      \* instance attributes of a PyMongoQuery
    items,      \* dict items of the same PyMongoQuery
    __position, \* ODataFilterTokenizer.__position, shared by the calls on one instance
    __tokens,   \* ODataFilterTokenizer.__tokens, shared by the calls on one instance
    threads     \* the concurrent tokenize calls: expression, progress and result of each

query_vars == <<supported_formats, query_params, options>>

mongo_vars == <<attrs, items>>

thread_vars == <<__position, __tokens, threads>>

vars ==
    <<operators, functions, lexemes, expr, pc, tok_out, ast, text, ast2, cache, calls,
      query_vars, mongo_vars, thread_vars>>

----------------------------------------------------------------------------
(* Characters: str.isspace, str.isdigit, str.isalpha, str.isalnum, str.lower *)

LowerLetters ==
    <<"a", "b", "c", "d", "e", "f", "g", "h", "i", "j", "k", "l", "m",
      "n", "o", "p", "q", "r", "s", "t", "u", "v", "w", "x", "y", "z">>

UpperLetters ==
    <<"A", "B", "C", "D", "E", "F", "G", "H", "I", "J", "K", "L", "M",
      "N", "O", "P", "Q", "R", "S", "T", "U", "V", "W", "X", "Y", "Z">>

Digits == {"0", "1", "2", "3", "4", "5", "6", "7", "8", "9"}

Range(s) == {s[i] : i \in 1..Len(s)}

isspace(char) == char \in {" ", "\t", "\n", "\r"}

isdigit(char) == char \in Digits

Letters == Range(LowerLetters) \cup Range(UpperLetters)

isalpha(char) == char \in Letters

isalnum(char) == isalpha(char) \/ isdigit(char)

\* the lower-case letter of each upper-case letter
LowerOf ==
    [char \in Range(UpperLetters) |->
        LowerLetters[CHOOSE i \in 1..Len(UpperLetters) : UpperLetters[i] = char]]

lower_char(char) == IF char \in DOMAIN LowerOf THEN LowerOf[char] ELSE char

lower(value) == [i \in 1..Len(value) |-> lower_char(value[i])]

----------------------------------------------------------------------------
(* Names of the operator, function and precedence tables *)

K_eq == <<"e", "q">>
K_ne == <<"n", "e">>
K_gt == <<"g", "t">>
K_ge == <<"g", "e">>
K_lt == <<"l", "t">>
K_le == <<"l", "e">>
K_and == <<"a", "n", "d">>
K_or == <<"o", "r">>
K_not == <<"n", "o", "t">>
K_in == <<"i", "n">>
K_has == <<"h", "a", "s">>
K_startswith == <<"s", "t", "a", "r", "t", "s", "w", "i", "t", "h">>
K_endswith == <<"e", "n", "d", "s", "w", "i", "t", "h">>
K_contains == <<"c", "o", "n", "t", "a", "i", "n", "s">>

\* ODataFilterTokenizer.__init__: the default operator table, name -> arity
DefaultOperators ==
    [name \in {K_eq, K_ne, K_gt, K_ge, K_lt, K_le, K_and, K_or, K_not, K_in, K_has}
        |-> IF name = K_not THEN 1 ELSE 2]

\* ODataFilterTokenizer.__init__: the default function table, name -> arity
DefaultFunctions == [name \in {K_startswith, K_endswith, K_contains} |-> 2]

----------------------------------------------------------------------------
(* filter_tokenizer.py: Token, TokenType and ODataFilterTokenizer *)

OPERATOR == "OPERATOR"
FUNCTION == "FUNCTION"
IDENTIFIER == "IDENTIFIER"
LITERAL == "LITERAL"
LPAREN == "LPAREN"
RPAREN == "RPAREN"
COMMA == "COMMA"

\* Token(type_, value, position): args_count keeps its default None (no field)
Token(type_, value, position) ==
    [type_ |-> type_, value |-> value, position |-> position]

\* Token(type_, value, position, args_count)
TokenWithArity(type_, value, position, args_count) ==
    [type_ |-> type_, value |-> value, position |-> position, args_count |-> args_count]

\* the while loop of _extract_string_literal; position is the cursor
RECURSIVE string_literal_loop(_, _, _)
string_literal_loop(e, position, value) ==
    IF ~(position < Len(e))
    THEN [value |-> value, position |-> position]
    ELSE
        LET char == e[position + 1] IN
        IF char = "'"
        THEN
            IF position + 1 < Len(e) /\ e[position + 2] = "'"
            THEN string_literal_loop(e, position + 2, value \o <<"'">>)
            ELSE [value |-> value, position |-> position + 1]
        ELSE string_literal_loop(e, position + 1, value \o <<char>>)

\* the string literal closed by the first quote after the opening one
RECURSIVE first_quote_loop(_, _, _)
first_quote_loop(e, position, value) ==
    IF ~(position < Len(e))
    THEN [value |-> value, position |-> position]
    ELSE IF e[position + 1] = "'"
    THEN [value |-> value, position |-> position + 1]
    ELSE first_quote_loop(e, position + 1, value \o <<e[position + 1]>>)

\* _extract_string_literal without the doubled-quote escape
_extract_string_literal_no_escape(e, position) ==
    LET scanned == first_quote_loop(e, position + 1, <<>>) IN
    [value |-> scanned.value, pos |-> position, position |-> scanned.position]

\* _extract_string_literal: the value, the start position and the cursor after it
_extract_string_literal(e, position) ==
    LET scanned == string_literal_loop(e, position + 1, <<>>) IN
    [value |-> scanned.value, pos |-> position, position |-> scanned.position]

\* the while loop of _extract_number
RECURSIVE number_loop(_, _, _)
number_loop(e, position, value) ==
    IF ~(position < Len(e))
    THEN [value |-> value, position |-> position]
    ELSE
        LET char == e[position + 1] IN
        IF isdigit(char) \/ char = "."
        THEN number_loop(e, position + 1, value \o <<char>>)
        ELSE [value |-> value, position |-> position]

\* _extract_number
_extract_number(e, position) ==
    LET scanned == number_loop(e, position, <<>>) IN
    [value |-> scanned.value, pos |-> position, position |-> scanned.position]

\* the while loop of _extract_identifier
RECURSIVE identifier_loop(_, _, _)
identifier_loop(e, position, value) ==
    IF ~(position < Len(e))
    THEN [value |-> value, position |-> position]
    ELSE
        LET char == e[position + 1] IN
        IF isalnum(char) \/ char = "_" \/ char = "/"
        THEN identifier_loop(e, position + 1, value \o <<char>>)
        ELSE [value |-> value, position |-> position]

\* _extract_identifier
_extract_identifier(e, position) ==
    LET scanned == identifier_loop(e, position, <<>>) IN
    [value |-> scanned.value, pos |-> position, position |-> scanned.position]

\* the token of an extracted keyword, an identifier lower-cased like the rest
keyword_token_lowercased(value, pos, ops, fns) ==
    LET lowercased_value == lower(value) IN
    IF lowercased_value \in DOMAIN ops
    THEN TokenWithArity(OPERATOR, lowercased_value, pos, ops[lowercased_value])
    ELSE IF lowercased_value \in DOMAIN fns
    THEN TokenWithArity(FUNCTION, lowercased_value, pos, fns[lowercased_value])
    ELSE Token(IDENTIFIER, lowercased_value, pos)

\* tokenize, lines 189-211: the token of an extracted keyword
keyword_token(value, pos, ops, fns) ==
    LET lowercased_value == lower(value) IN
    IF lowercased_value \in DOMAIN ops
    THEN TokenWithArity(OPERATOR, lowercased_value, pos, ops[lowercased_value])
    ELSE IF lowercased_value \in DOMAIN fns
    THEN TokenWithArity(FUNCTION, lowercased_value, pos, fns[lowercased_value])
    ELSE Token(IDENTIFIER, value, pos)

\* TokenizeError reporting the 1-based offset of the character
TokenizeError_one_based(char, position) ==
    [ok |-> FALSE, error |-> "TokenizeError", char |-> char, position |-> position + 1]

\* TokenizeError(char, position)
TokenizeError(char, position) ==
    [ok |-> FALSE, error |-> "TokenizeError", char |-> char, position |-> position]

\* one iteration of the while loop of tokenize, entered with position < len(expr):
\* the cursor and the token list after it, or the error it raises
tokenize_iteration(e, position, tokens, ops, fns) ==
    LET char == e[position + 1] IN
    IF isspace(char)
    THEN [ok |-> TRUE, position |-> position + 1, tokens |-> tokens]
    ELSE IF char = "("
    THEN [ok |-> TRUE, position |-> position + 1,
          tokens |-> Append(tokens, Token(LPAREN, <<"(">>, position))]
    ELSE IF char = ")"
    THEN [ok |-> TRUE, position |-> position + 1,
          tokens |-> Append(tokens, Token(RPAREN, <<")">>, position))]
    ELSE IF char = ","
    THEN [ok |-> TRUE, position |-> position + 1,
          tokens |-> Append(tokens, Token(COMMA, <<",">>, position))]
    ELSE IF char = "'"
    THEN
        LET got == _extract_string_literal(e, position) IN
        [ok |-> TRUE, position |-> got.position,
         tokens |-> Append(tokens, Token(LITERAL, got.value, got.pos))]
    ELSE IF isdigit(char)
    THEN
        LET got == _extract_number(e, position) IN
        [ok |-> TRUE, position |-> got.position,
         tokens |-> Append(tokens, Token(LITERAL, got.value, got.pos))]
    ELSE IF isalpha(char)
    THEN
        LET got == _extract_identifier(e, position) IN
        [ok |-> TRUE, position |-> got.position,
         tokens |-> Append(tokens, keyword_token(got.value, got.pos, ops, fns))]
    ELSE TokenizeError(char, position)

\* the while loop of tokenize and its return
RECURSIVE tokenize_loop(_, _, _, _, _)
tokenize_loop(e, position, tokens, ops, fns) ==
    IF ~(position < Len(e))
    THEN [ok |-> TRUE, tokens |-> tokens]
    ELSE
        LET step == tokenize_iteration(e, position, tokens, ops, fns) IN
        IF step.ok
        THEN tokenize_loop(e, step.position, step.tokens, ops, fns)
        ELSE step

\* ODataFilterTokenizer.tokenize(expr) with the tables ops and fns
tokenize(e, ops, fns) == tokenize_loop(e, 0, <<>>, ops, fns)

----------------------------------------------------------------------------
(* filter_parser.py: OPERATOR_PRECEDENCE, FilterNode and ODataFilterParser *)

\* a table that ranks `and` with `or`, below the comparisons it joins
OPERATOR_PRECEDENCE_and_as_or ==
    [name \in {K_not, K_and, K_or, K_eq, K_ne, K_gt, K_ge, K_lt, K_le, K_in, K_has}
        |-> IF name = K_not THEN 3 ELSE IF name \in {K_or, K_and} THEN 1 ELSE 2]

OPERATOR_PRECEDENCE ==
    [name \in {K_not, K_and, K_or, K_eq, K_ne, K_gt, K_ge, K_lt, K_le, K_in, K_has}
        |-> IF name = K_not THEN 3 ELSE IF name = K_or THEN 1 ELSE 2]

\* _get_operator_precedence: OPERATOR_PRECEDENCE.get(operator, 0)
_get_operator_precedence(operator) ==
    IF operator \in DOMAIN OPERATOR_PRECEDENCE THEN OPERATOR_PRECEDENCE[operator] ELSE 0

\* FilterNode is one record type whose unset fields are None; a field that is
\* None is left out of the record.
\* FilterNode(type_='literal', value=v)
literal_node(value) == [type_ |-> "literal", value |-> value]

\* FilterNode(type_='identifier', value=v)
identifier_node(value) == [type_ |-> "identifier", value |-> value]

\* FilterNode(type_='operator', value=op, left=left, right=right)
operator_node(value, left, right) ==
    [type_ |-> "operator", value |-> value, left |-> left, right |-> right]

\* FilterNode(type_='operator', value='not', right=expr)
not_node(right) == [type_ |-> "operator", value |-> K_not, right |-> right]

\* FilterNode(type_='function', value=func_name, arguments=args)
function_node(value, arguments) ==
    [type_ |-> "function", value |-> value, arguments |-> arguments]

\* FilterNode(type_='list', arguments=values)
list_node(arguments) == [type_ |-> "list", arguments |-> arguments]

\* ParseError(message): the message's fixed text and the values formatted into it
ParseError(message, detail) ==
    [ok |-> FALSE, error |-> "ParseError", message |-> message, detail |-> detail]

\* a parsing method's return: the node built and the tokens not yet consumed
Parsed(node, tokens) == [ok |-> TRUE, node |-> node, tokens |-> tokens]

\* values.insert(0, value_node): the list built in reverse
values_prepend(values, value_node) == <<value_node>> \o values

\* values.append(value_node), args.append(arg)
values_append(values, value_node) == Append(values, value_node)

RECURSIVE _parse_expression(_, _)
RECURSIVE expression_loop(_, _, _)
RECURSIVE _parse_primary(_)
RECURSIVE in_list_loop(_, _)
RECURSIVE _parse_function_arguments(_)
RECURSIVE function_arguments_loop(_, _)

\* _parse_expression, lines 296-298: fold the right operand into left and loop
fold_operator(op, left, right, precedence) ==
    IF right.ok
    THEN expression_loop(operator_node(op, left, right.node), right.tokens, precedence)
    ELSE right

\* the while loop of _parse_expression and its return
expression_loop(left, tokens, precedence) ==
    IF tokens = <<>>
    THEN Parsed(left, tokens)
    ELSE IF Head(tokens).type_ # OPERATOR
    THEN Parsed(left, tokens)
    ELSE IF _get_operator_precedence(Head(tokens).value) < precedence
    THEN Parsed(left, tokens)
    ELSE fold_operator(Head(tokens).value, left,
                       _parse_expression(Tail(tokens),
                                         _get_operator_precedence(Head(tokens).value) + 1),
                       precedence)

\* _parse_expression, lines 278-300: the loop entered with the primary as left
after_primary(left, precedence) ==
    IF left.ok THEN expression_loop(left.node, left.tokens, precedence) ELSE left

\* _parse_expression(tokens, precedence)
_parse_expression(tokens, precedence) == after_primary(_parse_primary(tokens), precedence)

\* _parse_primary, lines 361-375: one parsed value of an `in` list
after_list_value(value_node, values) ==
    IF ~value_node.ok
    THEN value_node
    ELSE IF value_node.tokens = <<>>
    THEN ParseError("unexpected end of value list after", <<value_node.node.value>>)
    ELSE IF Head(value_node.tokens).type_ = COMMA
    THEN in_list_loop(Tail(value_node.tokens), values_append(values, value_node.node))
    ELSE IF Head(value_node.tokens).type_ # RPAREN
    THEN ParseError("expected ',' or ')', got", <<Head(value_node.tokens).value>>)
    ELSE in_list_loop(value_node.tokens, values_append(values, value_node.node))

\* the while loop of the `in` list in _parse_primary, lines 355-375:
\* the list's values and the tokens left, or the error raised
in_list_loop(tokens, values) ==
    IF tokens = <<>>
    THEN [ok |-> TRUE, values |-> values, tokens |-> tokens]
    ELSE IF Head(tokens).type_ = RPAREN
    THEN [ok |-> TRUE, values |-> values, tokens |-> Tail(tokens)]
    ELSE after_list_value(_parse_expression(tokens, 0), values)

\* _parse_primary, lines 377-383: the 'in' operator node
in_operator(name, list) ==
    IF list.ok
    THEN Parsed(operator_node(K_in, identifier_node(name), list_node(list.values)),
                list.tokens)
    ELSE list

\* _parse_primary, lines 388-392: the function node
function_call(func_name, args) ==
    IF args.ok THEN Parsed(function_node(func_name, args.values), args.tokens) ELSE args

\* _parse_primary, lines 395-402: the closing parenthesis of a sub-expression
close_parenthesis(inner) ==
    IF ~inner.ok
    THEN inner
    ELSE IF inner.tokens = <<>> \/ Head(inner.tokens).type_ # RPAREN
    THEN ParseError("missing closing parenthesis after", <<inner.node.value>>)
    ELSE Parsed(inner.node, Tail(inner.tokens))

\* _parse_primary, lines 405-408: the 'not' operator node
negation(operand) ==
    IF operand.ok THEN Parsed(not_node(operand.node), operand.tokens) ELSE operand

\* _parse_primary, lines 338-385: an identifier, with the `in` list after it
identifier_primary(token, rest) ==
    IF rest # <<>> /\ Head(rest).type_ = OPERATOR /\ Head(rest).value = K_in
    THEN
        IF Tail(rest) # <<>> /\ Head(Tail(rest)).type_ = LPAREN
        THEN in_operator(token.value, in_list_loop(Tail(Tail(rest)), <<>>))
        ELSE Parsed(identifier_node(token.value), Tail(rest))
    ELSE Parsed(identifier_node(token.value), rest)

\* _parse_primary, lines 333-412: the primary that starts with token
primary_of(token, rest) ==
    IF token.type_ = LITERAL
    THEN Parsed(literal_node(token.value), rest)
    ELSE IF token.type_ = IDENTIFIER
    THEN identifier_primary(token, rest)
    ELSE IF token.type_ = FUNCTION
    THEN function_call(token.value, _parse_function_arguments(rest))
    ELSE IF token.type_ = LPAREN
    THEN close_parenthesis(_parse_expression(rest, 0))
    ELSE IF token.type_ = OPERATOR /\ token.value = K_not
    THEN negation(_parse_expression(rest, _get_operator_precedence(K_not)))
    ELSE ParseError("unexpected token", <<token.value, token.position>>)

\* a _parse_primary that answers the end of the tokens with an empty identifier
\* instead of raising
_parse_primary_lenient(tokens) ==
    IF tokens = <<>>
    THEN Parsed(identifier_node(<<>>), <<>>)
    ELSE primary_of(Head(tokens), Tail(tokens))

\* _parse_primary(tokens)
_parse_primary(tokens) ==
    IF tokens = <<>>
    THEN ParseError("unexpected end of expression", <<>>)
    ELSE primary_of(Head(tokens), Tail(tokens))

\* _parse_function_arguments(tokens): the arguments and the tokens left
_parse_function_arguments(tokens) ==
    IF tokens = <<>> \/ Head(tokens).type_ # LPAREN
    THEN ParseError("expected '(' after function name", <<>>)
    ELSE IF Tail(tokens) # <<>> /\ Head(Tail(tokens)).type_ = RPAREN
    THEN [ok |-> TRUE, values |-> <<>>, tokens |-> Tail(Tail(tokens))]
    ELSE function_arguments_loop(Tail(tokens), <<>>)

\* _parse_function_arguments, lines 452-468: one parsed argument
after_argument(arg, args) ==
    IF ~arg.ok
    THEN arg
    ELSE IF arg.tokens = <<>>
    THEN ParseError("unexpected end of value list after", <<arg.node.value>>)
    ELSE IF Head(arg.tokens).type_ = COMMA
    THEN function_arguments_loop(Tail(arg.tokens), values_append(args, arg.node))
    ELSE IF Head(arg.tokens).type_ = RPAREN
    THEN [ok |-> TRUE, values |-> values_append(args, arg.node),
          tokens |-> Tail(arg.tokens)]
    ELSE ParseError("expected ',' or ')', got", <<Head(arg.tokens).value>>)

\* the while loop of _parse_function_arguments and its return
function_arguments_loop(tokens, args) ==
    IF tokens = <<>>
    THEN [ok |-> TRUE, values |-> args, tokens |-> tokens]
    ELSE after_argument(_parse_expression(tokens, 0), args)

\* the tokens become an AST, or the tokenizer's error is passed on
parse_token_list(tokens) ==
    IF tokens.ok THEN _parse_expression(tokens.tokens, 0) ELSE tokens

\* the node of what _parse_expression returned, or the error raised
returned_node(parsed) ==
    IF parsed.ok THEN [ok |-> TRUE, node |-> parsed.node] ELSE parsed

\* the body of ODataFilterParser.parse, without its cache: the AST and the tokens
\* _parse_expression left unconsumed, or the error raised
parse_tokens(e, ops, fns) == parse_token_list(tokenize(e, ops, fns))

\* what the body of ODataFilterParser.parse returns or raises
parse_body(e, ops, fns) == returned_node(parse_tokens(e, ops, fns))

----------------------------------------------------------------------------
(* ODataFilterParser.evaluate *)

\* str.isdigit on a text: not empty and digits only
str_isdigit(value) == value # <<>> /\ \A i \in 1..Len(value) : isdigit(value[i])

\* value.count('.')
count_dots(value) == Cardinality({i \in 1..Len(value) : value[i] = "."})

\* value.replace('.', '', 1): the text without its first '.'
replace_first_dot(value) ==
    IF count_dots(value) = 0
    THEN value
    ELSE
        LET first == CHOOSE i \in 1..Len(value) :
                        value[i] = "." /\ \A j \in 1..(i - 1) : value[j] # "."
        IN SubSeq(value, 1, first - 1) \o SubSeq(value, first + 1, Len(value))

\* the quote character repr() chooses for a str
repr_quote(value) ==
    IF "'" \in Range(value) /\ ~("\"" \in Range(value)) THEN "\"" ELSE "'"

\* repr() of one character of a str inside the quote character quote
repr_char(char, quote) ==
    IF char = "\\" THEN <<"\\", "\\">>
    ELSE IF char = quote THEN <<"\\", char>>
    ELSE IF char = "\n" THEN <<"\\", "n">>
    ELSE IF char = "\t" THEN <<"\\", "t">>
    ELSE IF char = "\r" THEN <<"\\", "r">>
    ELSE <<char>>

RECURSIVE repr_body(_, _)
repr_body(value, quote) ==
    IF value = <<>>
    THEN <<>>
    ELSE repr_char(Head(value), quote) \o repr_body(Tail(value), quote)

\* f"{node.value!r}": Python's repr() of a str
repr(value) ==
    LET quote == repr_quote(value) IN <<quote>> \o repr_body(value, quote) \o <<quote>>

\* what evaluate and its handlers return
Text(t) == [ok |-> TRUE, text |-> t]

\* `not node.<field>`: the field is None (left out) or, for a text or a list, empty
falsy(node, field) == field \notin DOMAIN node \/ node[field] = <<>>

\* ', '.join(values)
RECURSIVE join(_)
join(values) ==
    IF values = <<>> THEN <<>>
    ELSE IF Len(values) = 1 THEN Head(values)
    ELSE Head(values) \o <<",", " ">> \o join(Tail(values))

RECURSIVE evaluate(_)
RECURSIVE evaluate_all(_)

\* [self.evaluate(arg) for arg in node.arguments]: the texts, or the first error
evaluate_all(arguments) ==
    IF arguments = <<>>
    THEN [ok |-> TRUE, values |-> <<>>]
    ELSE
        LET first == evaluate(Head(arguments)) IN
        IF ~first.ok
        THEN first
        ELSE
            LET others == evaluate_all(Tail(arguments)) IN
            IF others.ok
            THEN [ok |-> TRUE, values |-> <<first.text>> \o others.values]
            ELSE others

\* _evaluate_literal(node)
_evaluate_literal(node) ==
    IF falsy(node, "value")
    THEN ParseError("unexpected null literal", <<>>)
    ELSE IF str_isdigit(node.value)
            \/ (str_isdigit(replace_first_dot(node.value)) /\ count_dots(node.value) <= 1)
    THEN Text(node.value)
    ELSE Text(repr(node.value))

\* _evaluate_identifier(node)
_evaluate_identifier(node) ==
    IF falsy(node, "value")
    THEN ParseError("unexpected null identifier", <<>>)
    ELSE Text(node.value)

\* a slip: a list evaluated without the test for an empty one
_evaluate_list_unchecked(node) ==
    LET values == evaluate_all(IF "arguments" \in DOMAIN node THEN node.arguments ELSE <<>>) IN
    IF values.ok THEN Text(<<"(">> \o join(values.values) \o <<")">>) ELSE values

\* _evaluate_list(node)
_evaluate_list(node) ==
    IF falsy(node, "arguments")
    THEN ParseError("unexpected empty list", <<>>)
    ELSE
        LET values == evaluate_all(node.arguments) IN
        IF values.ok THEN Text(<<"(">> \o join(values.values) \o <<")">>) ELSE values

\* _evaluate_operator(node)
_evaluate_operator(node) ==
    IF falsy(node, "value")
    THEN ParseError("unexpected null operator", <<>>)
    ELSE IF node.value = K_not
    THEN
        IF "right" \notin DOMAIN node
        THEN ParseError("unexpected null operand for operator \"not\"", <<>>)
        ELSE
            LET right == evaluate(node.right) IN
            IF right.ok THEN Text(K_not \o <<" ">> \o right.text) ELSE right
    ELSE IF "left" \notin DOMAIN node \/ "right" \notin DOMAIN node
    THEN ParseError("unexpected null operand for operator", <<node.value>>)
    ELSE
        LET left == evaluate(node.left) IN
        IF ~left.ok
        THEN left
        ELSE
            LET right == evaluate(node.right) IN
            IF right.ok
            THEN Text(<<"(">> \o left.text \o <<" ">> \o node.value \o <<" ">>
                      \o right.text \o <<")">>)
            ELSE right

\* _evaluate_function(node)
_evaluate_function(node) ==
    IF falsy(node, "value")
    THEN ParseError("unexpected null function name", <<>>)
    ELSE IF falsy(node, "arguments")
    THEN ParseError("unexpected empty function arguments for function", <<node.value>>)
    ELSE
        LET args == evaluate_all(node.arguments) IN
        IF args.ok
        THEN Text(node.value \o <<"(">> \o join(args.values) \o <<")">>)
        ELSE args

\* evaluate(node)
evaluate(node) ==
    IF "type_" \notin DOMAIN node \/ node.type_ = ""
    THEN ParseError("node type cannot be None", <<>>)
    ELSE IF node.type_ = "literal" THEN _evaluate_literal(node)
    ELSE IF node.type_ = "identifier" THEN _evaluate_identifier(node)
    ELSE IF node.type_ = "list" THEN _evaluate_list(node)
    ELSE IF node.type_ = "operator" THEN _evaluate_operator(node)
    ELSE IF node.type_ = "function" THEN _evaluate_function(node)
    ELSE ParseError("unknown node type", <<node.type_>>)

----------------------------------------------------------------------------
(* the lru_cache of ODataFilterParser.parse *)

\* @lru_cache(maxsize=128)
maxsize == 128

\* the index of key in the cache, 0 when it has no entry
cache_index(c, key) ==
    IF \E i \in 1..Len(c) : c[i].key = key
    THEN CHOOSE i \in 1..Len(c) : c[i].key = key
    ELSE 0

\* the cache without its entry i
cache_without(c, i) == SubSeq(c, 1, i - 1) \o SubSeq(c, i + 1, Len(c))

\* ODataFilterParser.parse(expr) through its lru_cache, keyed by (self, expr):
\* a hit returns the stored node and makes the entry the most recently used; a
\* miss runs the body and stores what it returns (nothing when it raises),
\* dropping the least recently used entry of a full cache
parse(c, e, ops, fns) ==
    LET i == cache_index(c, e) IN
    IF i # 0
    THEN [out |-> [ok |-> TRUE, node |-> c[i].value],
          cache |-> Append(cache_without(c, i), c[i])]
    ELSE
        LET out == parse_body(e, ops, fns) IN
        IF ~out.ok
        THEN [out |-> out, cache |-> c]
        ELSE [out |-> out,
              cache |-> Append(IF Len(c) >= maxsize THEN Tail(c) ELSE c,
                               [key |-> e, value |-> out.node])]

----------------------------------------------------------------------------
(* Scenarios *)

\* an outcome slot before its call
NotCalled == [ok |-> FALSE, error |-> "not called"]

\* no ODataQueryParser in the scenario
NoQueryParser == supported_formats = <<>> /\ query_params = <<>> /\ options = NotCalled

\* no PyMongoQuery in the scenario
NoPyMongoQuery == attrs = <<>> /\ items = <<>>

\* no concurrent calls in the scenario
NoThreads == __position = 0 /\ __tokens = <<>> /\ threads = <<>>

\* longest raw expression handed to the tokenizer
MaxExprLen == 4

\* characters of the raw expressions: one of each class the tokenizer tells apart
TokenizerAlphabet == {" ", "(", ")", ",", "'", "1", ".", "o", "R", "_"}

RawExprs == UNION {[1..n -> TokenizerAlphabet] : n \in 0..MaxExprLen}

\* tables a caller passes to set_operators and set_functions
AltOperators == [name \in {<<"o">>} |-> 2]
AltFunctions == [name \in {K_or, <<"r", "o">>} |-> IF name = K_or THEN 3 ELSE 1]
OperatorTables == {DefaultOperators, AltOperators}
FunctionTables == {DefaultFunctions, AltFunctions}

\* a new ODataFilterTokenizer() and a raw expression to tokenize
InitTokenizer ==
    /\ operators = DefaultOperators
    /\ functions = DefaultFunctions
    /\ lexemes = <<>>
    /\ expr \in RawExprs
    /\ pc = "tokenizer"
    /\ tok_out = NotCalled
    /\ ast = NotCalled
    /\ text = NotCalled
    /\ ast2 = NotCalled
    /\ cache = <<>>
    /\ calls = 0
    /\ NoQueryParser
    /\ NoPyMongoQuery
    /\ NoThreads

\* ODataFilterTokenizer.set_operators(table)
set_operators(table) ==
    /\ pc \in {"tokenizer", "cache", "returned"}
    /\ operators' = table
    /\ pc' = IF pc = "returned" THEN "cache" ELSE pc
    /\ UNCHANGED <<functions, lexemes, expr, tok_out, ast, text, ast2, cache, calls>>
    /\ UNCHANGED <<query_vars, mongo_vars, thread_vars>>

\* ODataFilterTokenizer.set_functions(table)
set_functions(table) ==
    /\ pc \in {"tokenizer", "cache", "returned"}
    /\ functions' = table
    /\ pc' = IF pc = "returned" THEN "cache" ELSE pc
    /\ UNCHANGED <<operators, lexemes, expr, tok_out, ast, text, ast2, cache, calls>>
    /\ UNCHANGED <<query_vars, mongo_vars, thread_vars>>

\* ODataFilterTokenizer.tokenize(expr)
Tokenize ==
    /\ pc = "tokenizer"
    /\ tok_out' = tokenize(expr, operators, functions)
    /\ pc' = "tokenized"
    /\ UNCHANGED <<operators, functions, lexemes, expr, ast, text, ast2, cache, calls>>
    /\ UNCHANGED <<query_vars, mongo_vars, thread_vars>>

NextTokenizer ==
    \/ \E table \in OperatorTables : set_operators(table)
    \/ \E table \in FunctionTables : set_functions(table)
    \/ Tokenize

SpecTokenizer == InitTokenizer /\ [][NextTokenizer]_vars

----------------------------------------------------------------------------
(* Filter expressions assembled from words, parsed, evaluated and parsed again *)

W_a == <<"a">>
W_b == <<"b">>
W_1 == <<"1">>
W_x == <<"'", "x", "'">>
W_dot5 == <<"'", ".", "5", "'">>
W_empty == <<"'", "'">>
W_lparen == <<"(">>
W_rparen == <<")">>
W_comma == <<",">>
W_group == <<"(", "a", " ", "e", "q", " ", "1", ")">>

\* the words joined by single spaces
RECURSIVE assemble(_)
assemble(words) ==
    IF words = <<>> THEN <<>>
    ELSE IF Len(words) = 1 THEN Head(words)
    ELSE Head(words) \o <<" ">> \o assemble(Tail(words))

\* most words of an expression built from the whole vocabulary
MaxWords == 3

\* most elements of an `in` list
MaxListLen == 3

Vocabulary ==
    {W_a, W_b, W_1, W_x, W_dot5, W_empty, K_eq, K_and, K_or, K_not, K_in,
     W_lparen, W_rparen, W_comma, K_contains}

\* operands: identifiers, a number, a quoted literal, a parenthesized comparison
Operands == {W_a, W_b, W_1, W_x, W_group}

Comparisons == {K_eq, K_ne, K_gt, K_ge, K_lt, K_le, K_has}

ShortInputs == UNION {[1..n -> Vocabulary] : n \in 1..MaxWords}

\* a c1 x and b c2 y
ComparisonInputs ==
    {<<a, c1, x, K_and, b, c2, y>> :
        a \in {W_a, W_x}, x \in {W_1, W_x, W_b}, b \in {W_b, W_1}, y \in Operands,
        c1 \in Comparisons, c2 \in Comparisons}

\* a or b and c, a and b or c
LogicalInputs ==
    {<<a, l1, b, l2, c>> :
        a \in Operands, b \in Operands, c \in Operands,
        l1 \in {K_and, K_or}, l2 \in {K_and, K_or}}

\* the words e1 , e2 , ... , en of a list of n elements
RECURSIVE list_words(_)
list_words(elements) ==
    IF Len(elements) <= 1 THEN elements
    ELSE <<Head(elements), W_comma>> \o list_words(Tail(elements))

\* name in ( e1 , ... , en )
InListInputs ==
    {<<name, K_in, W_lparen>> \o list_words(elements) \o <<W_rparen>> :
        name \in {W_a, W_b},
        elements \in UNION {[1..n -> Operands] : n \in 1..MaxListLen}}


\* not a eq x and not b eq y
NegationInputs ==
    {<<K_not, a, K_eq, x, K_and, K_not, b, K_eq, y>> :
        a \in {W_a, W_b}, x \in {W_x, W_1}, b \in {W_a, W_b}, y \in {W_x, W_1, W_b}}

\* a op1 b op2 c with op1 and op2 of one level of OPERATOR_PRECEDENCE
AssociativityInputs ==
    {<<a, op1, b, op2, c>> :
        a \in {W_a, W_1, W_x}, b \in {W_b, W_1}, c \in {W_a, W_x},
        op1 \in {K_eq, K_and, K_in, K_has, K_le},
        op2 \in {K_eq, K_and, K_in, K_has, K_le}}
    \cup {<<a, K_or, b, K_or, c>> : a \in {W_a, W_1, W_x}, b \in {W_b, W_1}, c \in {W_a, W_x}}

\* a new ODataFilterParser() and the expression to parse
Init ==
    /\ operators = DefaultOperators
    /\ functions = DefaultFunctions
    /\ \/ lexemes \in ShortInputs
       \/ lexemes \in ComparisonInputs
       \/ lexemes \in LogicalInputs
       \/ lexemes \in InListInputs
       \/ lexemes \in NegationInputs
       \/ lexemes \in AssociativityInputs
    /\ expr = assemble(lexemes)
    /\ pc = "parser"
    /\ tok_out = NotCalled
    /\ ast = NotCalled
    /\ text = NotCalled
    /\ ast2 = NotCalled
    /\ cache = <<>>
    /\ calls = 0
    /\ NoQueryParser
    /\ NoPyMongoQuery
    /\ NoThreads

\* ODataFilterParser.parse(expr)
Parse ==
    /\ pc = "parser"
    /\ LET call == parse(cache, expr, operators, functions) IN
        /\ ast' = call.out
        /\ cache' = call.cache
    /\ calls' = calls + 1
    /\ pc' = "parsed"
    /\ UNCHANGED <<operators, functions, lexemes, expr, tok_out, text, ast2>>
    /\ UNCHANGED <<query_vars, mongo_vars, thread_vars>>

\* ODataFilterParser.evaluate(node) on the tree parse returned
Evaluate ==
    /\ pc = "parsed"
    /\ ast.ok
    /\ text' = evaluate(ast.node)
    /\ pc' = "evaluated"
    /\ UNCHANGED <<operators, functions, lexemes, expr, tok_out, ast, ast2, cache, calls>>
    /\ UNCHANGED <<query_vars, mongo_vars, thread_vars>>

\* ODataFilterParser.parse(text) on the text evaluate returned
Reparse ==
    /\ pc = "evaluated"
    /\ text.ok
    /\ LET call == parse(cache, text.text, operators, functions) IN
        /\ ast2' = call.out
        /\ cache' = call.cache
    /\ calls' = calls + 1
    /\ pc' = "reparsed"
    /\ UNCHANGED <<operators, functions, lexemes, expr, tok_out, ast, text>>
    /\ UNCHANGED <<query_vars, mongo_vars, thread_vars>>

Next == Parse \/ Evaluate \/ Reparse

Spec == Init /\ [][Next]_vars

----------------------------------------------------------------------------
(* Claims about the parser, checked under Spec *)

\* the tree an operand word stands for
OperandNode ==
    [word \in Operands |->
        IF word = W_a THEN [type_ |-> "identifier", value |-> <<"a">>]
        ELSE IF word = W_b THEN [type_ |-> "identifier", value |-> <<"b">>]
        ELSE IF word = W_1 THEN [type_ |-> "literal", value |-> <<"1">>]
        ELSE IF word = W_x THEN [type_ |-> "literal", value |-> <<"x">>]
        ELSE [type_ |-> "operator", value |-> K_eq,
              left |-> [type_ |-> "identifier", value |-> <<"a">>],
              right |-> [type_ |-> "literal", value |-> <<"1">>]]]

\* operator(value, left, right) as the claims write it
Binary(value, left, right) ==
    [type_ |-> "operator", value |-> value, left |-> left, right |-> right]

\* parse returned the tree node
Returned(node) == [ok |-> TRUE, node |-> node]

\* C1: comparison operators bind tighter than `and`: parse("a c1 x and b c2 y")
\* returns operator(and, operator(c1, a, x), operator(c2, b, y)).
C1_ComparisonsBindTighterThanAnd ==
    (pc = "parsed" /\ Len(lexemes) = 7 /\ lexemes \in ComparisonInputs) =>
        ast = Returned(Binary(K_and,
                  Binary(lexemes[2], OperandNode[lexemes[1]], OperandNode[lexemes[3]]),
                  Binary(lexemes[6], OperandNode[lexemes[5]], OperandNode[lexemes[7]])))

\* C2: `or` binds looser than `and`: parse("a or b and c") returns
\* operator(or, a, operator(and, b, c)) and parse("a and b or c") returns
\* operator(or, operator(and, a, b), c).
C2_OrBindsLooserThanAnd ==
    (pc = "parsed" /\ Len(lexemes) = 5 /\ lexemes \in LogicalInputs) =>
        /\ (lexemes[2] = K_or /\ lexemes[4] = K_and) =>
                ast = Returned(Binary(K_or, OperandNode[lexemes[1]],
                          Binary(K_and, OperandNode[lexemes[3]], OperandNode[lexemes[5]])))
        /\ (lexemes[2] = K_and /\ lexemes[4] = K_or) =>
                ast = Returned(Binary(K_or,
                          Binary(K_and, OperandNode[lexemes[1]], OperandNode[lexemes[3]]),
                          OperandNode[lexemes[5]]))

\* C2 witness: "a or b and 'x'" was parsed into a tree rooted at `or`
C2_Witness ==
    /\ pc = "parsed"
    /\ lexemes = <<W_a, K_or, W_b, K_and, W_x>>
    /\ ast.ok
    /\ ast.node.value = K_or
    /\ ast.node.right.value = K_and

\* the literal tokens of e hold no quote and no backslash
PlainLiterals(e) ==
    LET scanned == tokenize(e, operators, functions) IN
    /\ scanned.ok
    /\ \A i \in 1..Len(scanned.tokens) :
        scanned.tokens[i].type_ = LITERAL =>
            Range(scanned.tokens[i].value) \cap {"'", "\"", "\\"} = {}

\* C3: round trip: for an accepted expression whose literals hold no quote or
\* backslash and whose tree evaluates to text, parsing that text gives the same tree.
C3_RoundTrip ==
    (pc = "reparsed" /\ PlainLiterals(expr)) => ast2 = ast

\* C4: every tree parse returns evaluates to text: evaluate(parse(e)) raises no
\* ParseError, also for f(), an empty `in ()` list and an empty literal ''.
C4_ParsedTreesEvaluate ==
    pc = "evaluated" => text.ok

\* the elements e1..en of the words name in ( e1 , ... , en )
ListElements(words) == [k \in 1..((Len(words) - 3) \div 2) |-> words[2 * k + 2]]

\* C5: `in` list construction: an identifier followed by `in`, '(', n >= 1
\* comma-separated elements and ')' parses to operator(in, identifier,
\* list([e1..en])) with the elements in source order.
C5_InListConstruction ==
    (pc = "parsed" /\ Len(lexemes) >= 5 /\ lexemes \in InListInputs) =>
        ast = Returned(Binary(K_in,
                  [type_ |-> "identifier", value |-> lexemes[1]],
                  [type_ |-> "list",
                   arguments |-> [k \in 1..Len(ListElements(lexemes)) |->
                                    OperandNode[ListElements(lexemes)[k]]]]))

\* C5 witness: "a in ( 'x' , 1 )" was parsed into a list of two elements
C5_Witness ==
    /\ pc = "parsed"
    /\ lexemes = <<W_a, K_in, W_lparen, W_x, W_comma, W_1, W_rparen>>
    /\ ast.ok
    /\ ast.node.value = K_in
    /\ Len(ast.node.right.arguments) = 2

----------------------------------------------------------------------------
(* Claims about the tokenizer, checked under SpecTokenizer *)

\* offset p of e lies outside every quoted literal: an even number of quotes precede it
Outside(e, p) == Cardinality({i \in 1..p : e[i] = "'"}) % 2 = 0

\* the text between two quotes holds quotes only as doubled pairs
RECURSIVE PairedQuotes(_)
PairedQuotes(between) ==
    IF between = <<>> THEN TRUE
    ELSE IF Head(between) # "'" THEN PairedQuotes(Tail(between))
    ELSE Len(between) >= 2 /\ between[2] = "'" /\ PairedQuotes(Tail(Tail(between)))

\* the text between two quotes with each doubled quote read as one quote
RECURSIVE Unescaped(_)
Unescaped(between) ==
    IF between = <<>> THEN <<>>
    ELSE IF Head(between) # "'" THEN <<Head(between)>> \o Unescaped(Tail(between))
    ELSE <<"'">> \o Unescaped(Tail(Tail(between)))

\* offsets p < q of e hold the opening and the closing quote of a quoted literal:
\* the opening quote is outside the literals before it and is not the second quote
\* of a doubled pair
QuotedLiteral(e, p, q) ==
    /\ e[p + 1] = "'"
    /\ Outside(e, p)
    /\ (p = 0 \/ e[p] # "'")
    /\ e[q + 1] = "'"
    /\ PairedQuotes(SubSeq(e, p + 2, q))
    /\ (q + 1 = Len(e) \/ e[q + 2] # "'")

\* C6: a quoted literal becomes exactly one Literal token whose value is the text
\* between the opening and the closing quote with each doubled quote read as one
\* quote, the closing quote being the first quote not followed by another quote.
C6_QuotedLiteralToken ==
    (pc = "tokenized" /\ tok_out.ok) =>
        \A p \in 0..(Len(expr) - 1) : \A q \in (p + 1)..(Len(expr) - 1) :
            QuotedLiteral(expr, p, q) =>
                /\ \E i \in 1..Len(tok_out.tokens) :
                    tok_out.tokens[i] =
                        [type_ |-> LITERAL, value |-> Unescaped(SubSeq(expr, p + 2, q)),
                         position |-> p]
                /\ Cardinality({i \in 1..Len(tok_out.tokens) :
                                    tok_out.tokens[i].position \in p..q}) = 1

\* C6 witness: four quotes were tokenized into one literal whose value is one quote
C6_Witness ==
    /\ pc = "tokenized"
    /\ expr = <<"'", "'", "'", "'">>
    /\ tok_out.ok
    /\ tok_out.tokens = <<[type_ |-> LITERAL, value |-> <<"'">>, position |-> 0]>>

\* C7: every numeric Literal token holds at most one '.': a second '.' ends the
\* number without being consumed.
C7_NumberHasAtMostOneDot ==
    (pc = "tokenized" /\ tok_out.ok) =>
        \A i \in 1..Len(tok_out.tokens) :
            (/\ tok_out.tokens[i].type_ = LITERAL
             /\ isdigit(expr[tok_out.tokens[i].position + 1])) =>
                count_dots(tok_out.tokens[i].value) <= 1

\* a character a keyword may hold
KeywordChar(char) == isalnum(char) \/ char = "_" \/ char = "/"

\* offsets p..q of e are a maximal run of keyword characters that starts with a
\* letter, outside quoted literals
KeywordRun(e, p, q) ==
    /\ isalpha(e[p + 1])
    /\ Outside(e, p)
    /\ \A i \in p..q : KeywordChar(e[i + 1])
    /\ (p = 0 \/ ~KeywordChar(e[p]))
    /\ (q + 1 = Len(e) \/ ~KeywordChar(e[q + 2]))

\* the token the claim gives the keyword word found at offset p
ClassifiedToken(word, p) ==
    IF lower(word) \in DOMAIN operators
    THEN [type_ |-> OPERATOR, value |-> lower(word), position |-> p,
          args_count |-> operators[lower(word)]]
    ELSE IF lower(word) \in DOMAIN functions
    THEN [type_ |-> FUNCTION, value |-> lower(word), position |-> p,
          args_count |-> functions[lower(word)]]
    ELSE [type_ |-> IDENTIFIER, value |-> word, position |-> p]

\* C8: keyword classification: a maximal run of alphanumerics, '_' and '/' that
\* starts with a letter becomes an Operator token (lower-cased, with the table's
\* arity) if the operator table holds it, else a Function token likewise, else an
\* Identifier token that keeps the original casing and has no arity.
C8_KeywordClassification ==
    (pc = "tokenized" /\ tok_out.ok) =>
        \A p \in 0..(Len(expr) - 1) : \A q \in p..(Len(expr) - 1) :
            KeywordRun(expr, p, q) =>
                /\ \E i \in 1..Len(tok_out.tokens) :
                    tok_out.tokens[i] = ClassifiedToken(SubSeq(expr, p + 1, q + 1), p)
                /\ Cardinality({i \in 1..Len(tok_out.tokens) :
                                    tok_out.tokens[i].position \in p..q}) = 1

\* C8 witness: "oR,R" was tokenized into the operator or, a comma and the identifier R
C8_Witness ==
    /\ pc = "tokenized"
    /\ expr = <<"o", "R", ",", "R">>
    /\ operators = DefaultOperators
    /\ tok_out.ok
    /\ Len(tok_out.tokens) = 3
    /\ tok_out.tokens[1].type_ = OPERATOR
    /\ tok_out.tokens[3].type_ = IDENTIFIER
    /\ "args_count" \notin DOMAIN tok_out.tokens[3]

\* a character that is not whitespace, '(', ')', ',', a quote, a digit or a letter
Unrecognized(char) ==
    ~(isspace(char) \/ char \in {"(", ")", ",", "'"} \/ isdigit(char) \/ isalpha(char))

\* the offsets of e, outside quoted literals, that hold an unrecognized character
UnrecognizedOffsets(e) ==
    {p \in 0..(Len(e) - 1) : Outside(e, p) /\ Unrecognized(e[p + 1])}

\* the least offset of a non-empty set
Leftmost(offsets) == CHOOSE p \in offsets : \A other \in offsets : p <= other

\* tokenize raised TokenizeError for the leftmost of the offsets, or returned tokens
\* when there is none
RaisesAtLeftmost(offsets) ==
    IF offsets = {}
    THEN tok_out.ok
    ELSE tok_out = [ok |-> FALSE, error |-> "TokenizeError",
                    char |-> expr[Leftmost(offsets) + 1], position |-> Leftmost(offsets)]

NumberChar(char) == isdigit(char) \/ char = "."

\* offset s starts the run of letters, digits, '.', '_' and '/' that reaches offset p
RunStart(e, s, p) ==
    /\ \A i \in s..p : KeywordChar(e[i + 1]) \/ e[i + 1] = "."
    /\ (s = 0 \/ ~(KeywordChar(e[s]) \/ e[s] = "."))

\* the character at offset p continues a token: a '.' after a run of digits and
\* '.' that starts with a digit, or a '_' or '/' after a run of letters, digits,
\* '_' and '/' that starts with a letter (which may follow a number)
Continues(e, p) ==
    \E s \in 0..(p - 1) :
        /\ RunStart(e, s, p)
        /\ \/ /\ e[p + 1] = "."
              /\ isdigit(e[s + 1])
              /\ \A i \in s..(p - 1) : NumberChar(e[i + 1])
           \/ /\ e[p + 1] \in {"_", "/"}
              /\ \E n \in s..(p - 1) :
                    /\ isalpha(e[n + 1])
                    /\ \A i \in s..(n - 1) : NumberChar(e[i + 1])
                    /\ (n > s => isdigit(e[s + 1]))
                    /\ \A i \in n..(p - 1) : KeywordChar(e[i + 1])

----------------------------------------------------------------------------
(* One parser whose tokenizer is reconfigured between parse calls *)

\* most parse calls made on the parser
MaxCalls == 3

\* expressions whose tokens depend on the tables, and one that never parses
CacheInputs ==
    {<<"a", " ", "o", "r", " ", "b">>,
     <<"a", " ", "o", " ", "b">>,
     <<"r", "o", "(", "a", ")">>,
     <<"(">>}

\* a new ODataFilterParser(); pc is "returned" right after a parse call and
\* "cache" before the first call and after a change of the tokenizer
InitCache ==
    /\ operators = DefaultOperators
    /\ functions = DefaultFunctions
    /\ lexemes = <<>>
    /\ expr = <<>>
    /\ pc = "cache"
    /\ tok_out = NotCalled
    /\ ast = NotCalled
    /\ text = NotCalled
    /\ ast2 = NotCalled
    /\ cache = <<>>
    /\ calls = 0
    /\ NoQueryParser
    /\ NoPyMongoQuery
    /\ NoThreads

\* ODataFilterParser.set_tokenizer(ODataFilterTokenizer(ops, fns))
set_tokenizer(ops, fns) ==
    /\ pc \in {"cache", "returned"}
    /\ operators' = ops
    /\ functions' = fns
    /\ pc' = "cache"
    /\ UNCHANGED <<lexemes, expr, tok_out, ast, text, ast2, cache, calls>>
    /\ UNCHANGED <<query_vars, mongo_vars, thread_vars>>

\* ODataFilterParser.parse(e), one of a sequence of calls
CachedParse(e) ==
    /\ pc \in {"cache", "returned"}
    /\ calls < MaxCalls
    /\ expr' = e
    /\ LET call == parse(cache, e, operators, functions) IN
        /\ ast' = call.out
        /\ cache' = call.cache
    /\ calls' = calls + 1
    /\ pc' = "returned"
    /\ UNCHANGED <<operators, functions, lexemes, tok_out, text, ast2>>
    /\ UNCHANGED <<query_vars, mongo_vars, thread_vars>>

NextCache ==
    \/ \E table \in OperatorTables : set_operators(table)
    \/ \E table \in FunctionTables : set_functions(table)
    \/ \E ops \in OperatorTables, fns \in FunctionTables : set_tokenizer(ops, fns)
    \/ \E e \in CacheInputs : CachedParse(e)

SpecCache == InitCache /\ [][NextCache]_vars

\* C10: the parse cache is transparent: in any sequence of parse calls interleaved
\* with set_tokenizer, set_operators and set_functions, parse(e) returns what an
\* uncached parse of e returns with the tables configured at the time of the call.
C10_CacheIsTransparent ==
    pc = "returned" => ast = parse_body(expr, operators, functions)

----------------------------------------------------------------------------
(* Text operations of the query option handlers: str.strip, str.split,
   str.endswith, str.rsplit(maxsplit=1), int() *)

\* text as a sequence of characters, written as a tuple of one-character strings
RECURSIVE lstrip(_)
lstrip(value) ==
    IF value # <<>> /\ isspace(Head(value)) THEN lstrip(Tail(value)) ELSE value

RECURSIVE rstrip(_)
rstrip(value) ==
    IF value # <<>> /\ isspace(value[Len(value)])
    THEN rstrip(SubSeq(value, 1, Len(value) - 1))
    ELSE value

\* value.strip()
strip(value) == rstrip(lstrip(value))

\* value.split(','): the texts between the commas, empty ones included
RECURSIVE split_by(_, _, _)
split_by(value, sep, current) ==
    IF value = <<>>
    THEN <<current>>
    ELSE IF Head(value) = sep
    THEN <<current>> \o split_by(Tail(value), sep, <<>>)
    ELSE split_by(Tail(value), sep, Append(current, Head(value)))

split(value, sep) == split_by(value, sep, <<>>)

\* value.endswith(suffix)
endswith(value, suffix) ==
    /\ Len(value) >= Len(suffix)
    /\ SubSeq(value, Len(value) - Len(suffix) + 1, Len(value)) = suffix

\* the length of the last run of non-whitespace characters of value
RECURSIVE last_word_length(_)
last_word_length(value) ==
    IF value = <<>> \/ isspace(value[Len(value)])
    THEN 0
    ELSE 1 + last_word_length(SubSeq(value, 1, Len(value) - 1))

\* value.rsplit(maxsplit=1): the last word split off at the whitespace before it;
\* one part when value holds one word, none when it holds no word
rsplit(value) ==
    LET trimmed == rstrip(value)
        n == last_word_length(trimmed)
        word == SubSeq(trimmed, Len(trimmed) - n + 1, Len(trimmed))
        before == rstrip(SubSeq(trimmed, 1, Len(trimmed) - n))
    IN IF trimmed = <<>> THEN <<>>
       ELSE IF before = <<>> THEN <<lstrip(trimmed)>>
       ELSE <<before, word>>

\* the value of a decimal digit
DigitValue ==
    [char \in Digits |->
        CASE char = "0" -> 0 [] char = "1" -> 1 [] char = "2" -> 2 [] char = "3" -> 3
          [] char = "4" -> 4 [] char = "5" -> 5 [] char = "6" -> 6 [] char = "7" -> 7
          [] char = "8" -> 8 [] char = "9" -> 9]

\* int() on the digits of a text: digits, with single underscores between digits
RECURSIVE int_digits(_, _, _)
int_digits(value, n, after_digit) ==
    IF value = <<>>
    THEN IF after_digit THEN [ok |-> TRUE, n |-> n] ELSE [ok |-> FALSE]
    ELSE IF isdigit(Head(value))
    THEN int_digits(Tail(value), 10 * n + DigitValue[Head(value)], TRUE)
    ELSE IF Head(value) = "_" /\ after_digit
    THEN int_digits(Tail(value), n, FALSE)
    ELSE [ok |-> FALSE]

\* int(value) of a str: surrounding whitespace dropped, an optional sign, then the
\* digits; [ok |-> FALSE] stands for ValueError
int(value) ==
    LET trimmed == strip(value)
        signed == trimmed # <<>> /\ Head(trimmed) \in {"+", "-"}
        digits == int_digits(IF signed THEN Tail(trimmed) ELSE trimmed, 0, FALSE)
    IN IF ~digits.ok THEN digits
       ELSE IF signed /\ Head(trimmed) = "-" THEN [ok |-> TRUE, n |-> 0 - digits.n]
       ELSE digits

----------------------------------------------------------------------------
(* ODataQueryParser: the option handlers and parse_query_params *)

F_json == <<"j", "s", "o", "n">>
F_xml == <<"x", "m", "l">>
F_csv == <<"c", "s", "v">>
F_tsv == <<"t", "s", "v">>
F_yaml == <<"y", "a", "m", "l">>

\* the default allowlist of response formats
DEFAULT_FORMAT_OPTIONS == <<F_json, F_xml, F_csv, F_tsv>>

\* the formats the message of UnsupportedFormat names
UnsupportedFormatNames == <<F_json, F_xml, F_csv, F_tsv>>

D_asc == <<"a", "s", "c">>
D_desc == <<"d", "e", "s", "c">>

\* ODataQueryOptions(): count False, every other field None (left out)
ODataQueryOptions == [count |-> FALSE]

\* options.<field> = value
assign(opts, field, value) ==
    [f \in DOMAIN opts \cup {field} |-> IF f = field THEN value ELSE opts[f]]

\* what a handler leaves when it returns: the options it assigned to
Handled(opts) == [ok |-> TRUE, options |-> opts]

\* NoPositiveIntegerValue(param, value)
NoPositiveIntegerValue(param, value) ==
    [ok |-> FALSE, error |-> "NoPositiveIntegerValue", param |-> param, value |-> value]

\* UnsupportedFormat(fmt): the message names fmt and a fixed list of formats
UnsupportedFormat(fmt) ==
    [ok |-> FALSE, error |-> "UnsupportedFormat", value |-> fmt,
     supported |-> UnsupportedFormatNames]

\* _split_by_comma(value)
_split_by_comma(value) ==
    LET parts == split(value, ",") IN [i \in 1..Len(parts) |-> strip(parts[i])]

\* _parse_count(value, options)
_parse_count(value, opts) ==
    Handled(assign(opts, "count", lower(value) = <<"t", "r", "u", "e">>))

\* _parse_expand(value, options)
_parse_expand(value, opts) == Handled(assign(opts, "expand", _split_by_comma(value)))

\* _parse_filter(value, options): the filter parser's parse, through its cache;
\* what parse raises is raised by the handler
_parse_filter(value, opts, c, ops, fns) ==
    LET call == parse(c, value, ops, fns) IN
    [out |-> IF call.out.ok
             THEN Handled(assign(opts, "filter_", call.out.node))
             ELSE call.out,
     cache |-> call.cache]

\* _parse_format(value, options)
_parse_format(value, opts, formats) ==
    IF \A i \in 1..Len(formats) : formats[i] # value
    THEN UnsupportedFormat(value)
    ELSE Handled(assign(opts, "format_", value))

----------------------------------------------------------------------------
\* OrderbyItem(field, direction)
OrderbyItem(field, direction) == [field |-> field, direction |-> direction]

DEFAULT_DIRECTION == D_asc

\* what the unpacking `field, direction = item.rsplit(maxsplit=1)` raises when
\* the split gives other than two parts
ValueError == [ok |-> FALSE, error |-> "ValueError"]

\* one item of $orderby after item.strip(): its OrderbyItem
orderby_item(item) ==
    IF endswith(item, <<" ">> \o D_asc) \/ endswith(item, <<" ">> \o D_desc)
    THEN
        LET parts == rsplit(item) IN
        IF Len(parts) # 2
        THEN ValueError
        ELSE [ok |-> TRUE, item |-> OrderbyItem(strip(parts[1]), strip(parts[2]))]
    ELSE [ok |-> TRUE, item |-> OrderbyItem(strip(item), strip(DEFAULT_DIRECTION))]

RECURSIVE orderby_loop(_, _)

\* a slip: the new item put in front of the list
orderby_prepend(made, rest, orderby_list) ==
    IF made.ok THEN orderby_loop(rest, <<made.item>> \o orderby_list) ELSE made

\* orderby_list.append(OrderbyItem(...)) and the next turn of the loop
orderby_append(made, rest, orderby_list) ==
    IF made.ok THEN orderby_loop(rest, Append(orderby_list, made.item)) ELSE made

\* one turn of the loop of _parse_orderby, item being the stripped segment
orderby_turn(item, rest, orderby_list) ==
    IF item = <<>>
    THEN orderby_loop(rest, orderby_list)
    ELSE orderby_append(orderby_item(item), rest, orderby_list)

\* the loop of _parse_orderby over value.split(',')
orderby_loop(parts, orderby_list) ==
    IF parts = <<>>
    THEN [ok |-> TRUE, list |-> orderby_list]
    ELSE orderby_turn(strip(Head(parts)), Tail(parts), orderby_list)

\* options.orderby = orderby_list
orderby_assign(looped, opts) ==
    IF looped.ok THEN Handled(assign(opts, "orderby", looped.list)) ELSE looped

\* _parse_orderby(value, options)
_parse_orderby(value, opts) == orderby_assign(orderby_loop(split(value, ","), <<>>), opts)

\* _parse_search(value, options)
_parse_search(value, opts) == Handled(assign(opts, "search", strip(value)))

\* _parse_select(value, options)
_parse_select(value, opts) == Handled(assign(opts, "select", _split_by_comma(value)))

\* a slip: zero rejected with the negative numbers
parse_positive(param, field, value, opts) ==
    LET parsed == int(value) IN
    IF parsed.ok /\ parsed.n > 0
    THEN Handled(assign(opts, field, parsed.n))
    ELSE NoPositiveIntegerValue(param, value)

\* the body shared by _parse_skip and _parse_top: int(value), then the assertion
parse_non_negative(param, field, value, opts) ==
    LET parsed == int(value) IN
    IF parsed.ok /\ parsed.n >= 0
    THEN Handled(assign(opts, field, parsed.n))
    ELSE NoPositiveIntegerValue(param, value)

\* _parse_skip(value, options)
_parse_skip(value, opts) == parse_non_negative("$skip", "skip", value, opts)

\* _parse_top(value, options)
_parse_top(value, opts) == parse_non_negative("$top", "top", value, opts)

\* the keys of the default __supported_options
SupportedOptions ==
    {"$count", "$expand", "$filter", "$format", "$orderby", "$search", "$select",
     "$skip", "$top"}

\* parser_func(value, options) for the handler registered under param
parser_func(param, value, opts, c, ops, fns, formats) ==
    IF param = "$filter"
    THEN _parse_filter(value, opts, c, ops, fns)
    ELSE [out |-> CASE param = "$count" -> _parse_count(value, opts)
                    [] param = "$expand" -> _parse_expand(value, opts)
                    [] param = "$format" -> _parse_format(value, opts, formats)
                    [] param = "$orderby" -> _parse_orderby(value, opts)
                    [] param = "$search" -> _parse_search(value, opts)
                    [] param = "$select" -> _parse_select(value, opts)
                    [] param = "$skip" -> _parse_skip(value, opts)
                    [] param = "$top" -> _parse_top(value, opts),
          cache |-> c]

\* a slip: the last value of the key instead of the first
last_value(values) == IF values = <<>> THEN <<>> ELSE values[Len(values)]

\* values[0] if values else None; None is left as the empty text, which the
\* code skips like None
first_value(values) == IF values = <<>> THEN <<>> ELSE values[1]

RECURSIVE query_params_loop(_, _, _, _, _, _)

\* after parser_func(value, options): the next turn of the loop, or its error
after_parser_func(handled, rest, ops, fns, formats) ==
    IF handled.out.ok
    THEN query_params_loop(rest, handled.out.options, handled.cache, ops, fns, formats)
    ELSE handled

\* one turn of the loop of parse_query_params
query_params_turn(param, value, rest, opts, c, ops, fns, formats) ==
    IF param \notin SupportedOptions \/ value = <<>>
    THEN query_params_loop(rest, opts, c, ops, fns, formats)
    ELSE after_parser_func(parser_func(param, value, opts, c, ops, fns, formats),
                           rest, ops, fns, formats)

\* the loop of parse_query_params over query_params.items()
query_params_loop(params, opts, c, ops, fns, formats) ==
    IF params = <<>>
    THEN [out |-> Handled(opts), cache |-> c]
    ELSE query_params_turn(Head(params).key, first_value(Head(params).values),
                           Tail(params), opts, c, ops, fns, formats)

\* ODataQueryParser.parse_query_params(query_params): the options returned or the
\* error raised, and the filter parser's cache afterwards
parse_query_params(params, c, ops, fns, formats) ==
    query_params_loop(params, ODataQueryOptions, c, ops, fns, formats)

----------------------------------------------------------------------------
(* One ODataQueryParser and one call of parse_query_params *)

\* most entries of the mappings with several keys
MaxParams == 2

\* longest text handed to $skip and $top
MaxIntLen == 3

\* most comma-separated segments of an $orderby value
MaxSegments == 3

T_true == <<"T", "r", "u", "e">>
T_no == <<"n", "o">>
T_list == <<"a", ",", " ", "b">>
T_filter == <<"a", " ", "e", "q", " ", "1">>
T_open == <<"(">>
T_sorted == <<"a", " ", "d", "e", "s", "c">>
T_padded == <<" ", "a", " ">>
T_0 == <<"0">>
T_2 == <<"2">>
T_minus1 == <<"-", "1">>

\* two sample values for each key; "$unknown" is a key no handler is registered for
SampleValues ==
    [key \in SupportedOptions \cup {"$unknown"} |->
        CASE key = "$count" -> <<T_true, T_no>>
          [] key = "$expand" -> <<T_list, W_a>>
          [] key = "$filter" -> <<T_filter, T_open>>
          [] key = "$format" -> <<F_json, F_yaml>>
          [] key = "$orderby" -> <<T_sorted, W_a>>
          [] key = "$search" -> <<T_padded, W_a>>
          [] key = "$select" -> <<T_list, W_b>>
          [] key = "$skip" -> <<T_0, T_minus1>>
          [] key = "$top" -> <<T_2, W_a>>
          [] key = "$unknown" -> <<W_a, T_minus1>>]

\* the entries of one key: the key and a value list
EntriesOf(key) ==
    {[key |-> key, values |-> values] :
        values \in {<<>>, << <<>> >>, <<SampleValues[key][1]>>,
                    SampleValues[key], << <<>>, SampleValues[key][2]>>}}

Entries == UNION {EntriesOf(key) : key \in DOMAIN SampleValues}

\* mappings of up to MaxParams entries, in every iteration order; keys are distinct
MappingInputs ==
    {params \in UNION {[1..n -> Entries] : n \in 0..MaxParams} :
        \A i, j \in 1..Len(params) : i # j => params[i].key # params[j].key}

IntAlphabet == {"0", "1", "7", "-", "+", " ", "_", "a"}

\* $skip or $top alone, with every short text over IntAlphabet
IntegerInputs ==
    {<<[key |-> key, values |-> <<value>>]>> :
        key \in {"$skip", "$top"},
        value \in UNION {[1..n -> IntAlphabet] : n \in 1..MaxIntLen}}

\* segments of an $orderby value
Segments ==
    {W_a, <<" ", "b", " ">>, <<>>, <<" ">>,
     <<"a", " ", "a", "s", "c">>, <<"b", " ", "d", "e", "s", "c">>,
     <<"a", " ", " ", "d", "e", "s", "c", " ">>, <<"a", " ", "D", "E", "S", "C">>,
     <<"b", " ", "A", "s", "c">>, <<"d", "e", "s", "c">>}

\* ','.join(segments)
RECURSIVE join_segments(_)
join_segments(segments) ==
    IF Len(segments) = 1
    THEN Head(segments)
    ELSE Head(segments) \o <<",">> \o join_segments(Tail(segments))

SegmentLists == UNION {[1..n -> Segments] : n \in 1..MaxSegments}

\* $orderby alone, with the segments of lexemes joined by commas
OrderbyInput(segments) == <<[key |-> "$orderby", values |-> <<join_segments(segments)>>]>>

\* $format alone
FormatInputs ==
    {<<[key |-> "$format", values |-> <<value>>]>> :
        value \in {F_json, F_yaml, F_tsv, <<"J", "S", "O", "N">>, <<"j", "s", "o", "n", " ">>}}

\* allowlists a caller passes to the constructor or to set_supported_formats;
\* the empty one stands for None
FormatLists == {<<>>, <<F_yaml, F_json>>, <<F_yaml>>}

\* ODataQueryParser.__init__: supported_formats or DEFAULT_FORMAT_OPTIONS
init_supported_formats(given) == IF given = <<>> THEN DEFAULT_FORMAT_OPTIONS ELSE given

\* a new ODataQueryParser(supported_formats=...) and the mapping to parse
InitQuery ==
    /\ operators = DefaultOperators
    /\ functions = DefaultFunctions
    /\ expr = <<>>
    /\ pc = "query"
    /\ tok_out = NotCalled
    /\ ast = NotCalled
    /\ text = NotCalled
    /\ ast2 = NotCalled
    /\ cache = <<>>
    /\ calls = 0
    /\ NoPyMongoQuery
    /\ NoThreads
    /\ options = NotCalled
    /\ \/ /\ lexemes = <<>>
          /\ query_params \in MappingInputs \cup IntegerInputs
          /\ supported_formats = init_supported_formats(<<>>)
       \/ /\ lexemes \in SegmentLists
          /\ query_params = OrderbyInput(lexemes)
          /\ supported_formats = init_supported_formats(<<>>)
       \/ /\ lexemes = <<>>
          /\ query_params \in FormatInputs
          /\ \E given \in FormatLists : supported_formats = init_supported_formats(given)

\* ODataQueryParser.set_supported_formats(formats)
set_supported_formats(formats) ==
    /\ pc = "query"
    /\ formats # <<>>
    /\ supported_formats' = formats
    /\ UNCHANGED <<operators, functions, lexemes, expr, pc, tok_out, ast, text, ast2,
                   cache, calls, query_params, options, mongo_vars, thread_vars>>

\* ODataQueryParser.parse_query_params(query_params)
ParseQueryParams ==
    /\ pc = "query"
    /\ LET call == parse_query_params(query_params, cache, operators, functions,
                                      supported_formats) IN
        /\ options' = call.out
        /\ cache' = call.cache
    /\ pc' = "answered"
    /\ UNCHANGED <<operators, functions, lexemes, expr, tok_out, ast, text, ast2, calls,
                   supported_formats, query_params, mongo_vars, thread_vars>>

NextQuery ==
    \/ \E formats \in FormatLists : set_supported_formats(formats)
    \/ ParseQueryParams

SpecQuery == InitQuery /\ [][NextQuery]_vars

----------------------------------------------------------------------------
(* Claims about the query option parser, checked under SpecQuery *)

\* an entry the claim keeps: a recognized key whose first value is not empty
Supplied(entry) ==
    /\ entry.key \in {"$count", "$expand", "$filter", "$format", "$orderby", "$search",
                      "$select", "$skip", "$top"}
    /\ entry.values # <<>>
    /\ entry.values[1] # <<>>

\* the mapping without the entries that are not supplied and without every value
\* after the first
FirstValuesOnly(params) ==
    LET kept == SelectSeq(params, Supplied) IN
    [i \in 1..Len(kept) |-> [key |-> kept[i].key, values |-> <<kept[i].values[1]>>]]

\* the field of ODataQueryOptions a recognized key sets
FieldOf(key) ==
    CASE key = "$count" -> "count" [] key = "$expand" -> "expand"
      [] key = "$filter" -> "filter_" [] key = "$format" -> "format_"
      [] key = "$orderby" -> "orderby" [] key = "$search" -> "search"
      [] key = "$select" -> "select" [] key = "$skip" -> "skip"
      [] key = "$top" -> "top" [] OTHER -> "none"

\* C11: parse_query_params depends only on the first value of each recognized key:
\* its outcome is the outcome for the mapping without unrecognized keys, without
\* recognized keys whose value list is empty or starts with the empty text, and
\* without the values after the first; a removed key leaves its field at the
\* default and causes no error.
C11_OnlyFirstValuesOfRecognizedKeys ==
    pc = "answered" =>
        /\ options = parse_query_params(FirstValuesOnly(query_params), <<>>, operators,
                                        functions, supported_formats).out
        /\ options.ok =>
            \A i \in 1..Len(query_params) :
                ~Supplied(query_params[i]) =>
                    LET field == FieldOf(query_params[i].key) IN
                    IF field = "count"
                    THEN options.options.count = FALSE
                    ELSE field \notin DOMAIN options.options

\* a mapping whose $skip starts with an empty value followed by -1 and whose $top
\* is 2 followed by a: the call returns options with top 2 and no skip
C11_Witness ==
    /\ pc = "answered"
    /\ \E i, j \in 1..Len(query_params) :
        /\ query_params[i] = [key |-> "$skip", values |-> << <<>>, T_minus1>>]
        /\ query_params[j] = [key |-> "$top", values |-> <<T_2, W_a>>]
    /\ options = [ok |-> TRUE, options |-> [count |-> FALSE, top |-> 2]]

----------------------------------------------------------------------------
\* the text of an integer: after the surrounding whitespace and an optional sign,
\* decimal digits, with single underscores allowed between two digits
IntegerText(value) ==
    LET trimmed == strip(value)
        body == IF trimmed # <<>> /\ trimmed[1] \in {"+", "-"} THEN Tail(trimmed) ELSE trimmed
    IN /\ body # <<>>
       /\ \A i \in 1..Len(body) : body[i] \in Digits \cup {"_"}
       /\ body[1] # "_" /\ body[Len(body)] # "_"
       /\ \A i \in 1..(Len(body) - 1) : ~(body[i] = "_" /\ body[i + 1] = "_")

\* the number a run of decimal digits denotes
RECURSIVE DecimalValue(_)
DecimalValue(digits) ==
    IF digits = <<>>
    THEN 0
    ELSE 10 * DecimalValue(SubSeq(digits, 1, Len(digits) - 1))
         + DigitValue[digits[Len(digits)]]

IsDigit(char) == char \in Digits

\* the integer an integer text denotes
IntegerOf(value) ==
    LET magnitude == DecimalValue(SelectSeq(strip(value), IsDigit)) IN
    IF strip(value)[1] = "-" THEN 0 - magnitude ELSE magnitude

----------------------------------------------------------------------------
\* the segments of lexemes are all non-blank, so that each one gives one item
NoBlankSegment == \A i \in 1..Len(lexemes) : strip(lexemes[i]) # <<>>

\* the direction suffix a trimmed segment ends with in any letter case, <<>> if none
SuffixOf(segment) ==
    IF endswith(lower(segment), <<" ">> \o D_asc) THEN D_asc
    ELSE IF endswith(lower(segment), <<" ">> \o D_desc) THEN D_desc
    ELSE <<>>

\* the trimmed text before the direction suffix of a trimmed segment
BeforeSuffix(segment) ==
    strip(SubSeq(segment, 1, Len(segment) - Len(SuffixOf(segment)) - 1))

\* C13: $orderby direction suffixes are matched case-insensitively: a trimmed
\* segment that ends with " asc" or " desc" in any letter case yields an
\* OrderbyItem whose field is the trimmed text before the suffix and whose
\* direction is asc or desc accordingly.
C13_DirectionSuffixInAnyCase ==
    (pc = "answered" /\ lexemes # <<>> /\ NoBlankSegment) =>
        /\ options.ok
        /\ "orderby" \in DOMAIN options.options
        /\ Len(options.options.orderby) = Len(lexemes)
        /\ \A i \in 1..Len(lexemes) :
            LET segment == strip(lexemes[i]) IN
            SuffixOf(segment) # <<>> =>
                options.options.orderby[i] =
                    [field |-> BeforeSuffix(segment), direction |-> SuffixOf(segment)]

----------------------------------------------------------------------------
\* what C14 says of the items of an $orderby value whose segments are lexemes: one
\* item per segment, in input order, each direction asc or desc, asc for a segment
\* without a direction suffix
OneItemPerSegment ==
    /\ options.ok
    /\ "orderby" \in DOMAIN options.options
    /\ Len(options.options.orderby) = Len(lexemes)
    /\ \A i \in 1..Len(lexemes) :
        LET segment == strip(lexemes[i])
            item == options.options.orderby[i]
        IN /\ item.direction \in {D_asc, D_desc}
           /\ SuffixOf(segment) = <<>> => item = [field |-> segment, direction |-> D_asc]
           /\ (endswith(segment, <<" ">> \o D_asc) \/ endswith(segment, <<" ">> \o D_desc)) =>
                item = [field |-> BeforeSuffix(segment), direction |-> SuffixOf(segment)]

\* C14 as stated: $orderby preserves order and defaults the direction for a value
\* made of non-empty comma-separated segments: one OrderbyItem per segment in
\* input order, every direction asc or desc, asc for a segment without a suffix.
C14_OneItemPerNonEmptySegment ==
    (pc = "answered" /\ lexemes # <<>> /\ \A i \in 1..Len(lexemes) : lexemes[i] # <<>>) =>
        OneItemPerSegment

\* C14 as amended: the same for a value whose comma-separated segments are not
\* empty after trimming; a segment of whitespace only gives no item.
C14_OneItemPerNonBlankSegment ==
    (pc = "answered" /\ lexemes # <<>> /\ NoBlankSegment) => OneItemPerSegment

\* $orderby=b desc,a has given [(b, desc), (a, asc)]
C14_Witness ==
    /\ pc = "answered"
    /\ lexemes = <<<<"b", " ", "d", "e", "s", "c">>, W_a>>
    /\ options.ok
    /\ options.options.orderby =
        <<[field |-> W_b, direction |-> D_desc], [field |-> W_a, direction |-> D_asc]>>

----------------------------------------------------------------------------
\* C15: $format is accepted if and only if its value equals a member of the
\* parser's configured allowlist; otherwise UnsupportedFormat is raised, naming the
\* rejected value and the allowed set configured on that parser, also when the
\* caller substituted a non-default allowlist.
C15_FormatAllowlist ==
    (pc = "answered" /\ query_params \in FormatInputs) =>
        LET value == query_params[1].values[1] IN
        IF value \in Range(supported_formats)
        THEN options = [ok |-> TRUE, options |-> [count |-> FALSE, format_ |-> value]]
        ELSE /\ ~options.ok
             /\ options.error = "UnsupportedFormat"
             /\ options.value = value
             /\ Range(options.supported) = Range(supported_formats)

----------------------------------------------------------------------------
(* Further claims about the parser, checked under Spec *)

\* not(operand) as the claims write it
Negated(operand) == [type_ |-> "operator", value |-> K_not, right |-> operand]

\* C17: `not` written before a comparison negates the whole comparison:
\* parse("not a eq x and not b eq y") returns
\* operator(and, not(operator(eq, a, x)), not(operator(eq, b, y))).
C17_NotNegatesTheComparison ==
    (pc = "parsed" /\ lexemes \in NegationInputs) =>
        ast = Returned(Binary(K_and,
                  Negated(Binary(K_eq, OperandNode[lexemes[2]], OperandNode[lexemes[4]])),
                  Negated(Binary(K_eq, OperandNode[lexemes[7]], OperandNode[lexemes[9]]))))

----------------------------------------------------------------------------
(* PyMongoQuery: a dict whose five options are also instance attributes *)

\* the options of a PyMongoQuery
QueryKeys == {"skip", "limit", "filter", "sort", "projection"}

\* values a caller stores; "None" is Python's None
QueryValues == {"None", "1", "2"}

\* object.__setattr__(name, value) and dict.__setitem__(key, value): the store with
\* value under key
put(store, key, value) ==
    [k \in DOMAIN store \cup {key} |-> IF k = key THEN value ELSE store[k]]

\* q.<name>: the instance attribute, else the class attribute, which is None
getattr(instance, name) == IF name \in DOMAIN instance THEN instance[name] ELSE "None"

\* kwargs.get(key)
kwargs_get(kwargs, key) == IF key \in DOMAIN kwargs THEN kwargs[key] ELSE "None"

\* a slip: the item stored without the attribute
setitem_only(q, key, value) == [attrs |-> q.attrs, items |-> put(q.items, key, value)]

\* PyMongoQuery.__setitem__(key, value)
__setitem__(q, key, value) ==
    [attrs |-> put(q.attrs, key, value), items |-> put(q.items, key, value)]

\* PyMongoQuery.__setattr__(name, value)
__setattr__(q, name, value) ==
    [attrs |-> put(q.attrs, name, value), items |-> put(q.items, name, value)]

\* PyMongoQuery.__init__(**kwargs): dict.__init__(**kwargs), then the five
\* attribute assignments self.<key> = kwargs.get(<key>)
__init__(kwargs) ==
    LET q0 == [attrs |-> <<>>, items |-> kwargs]
        q1 == __setattr__(q0, "skip", kwargs_get(kwargs, "skip"))
        q2 == __setattr__(q1, "limit", kwargs_get(kwargs, "limit"))
        q3 == __setattr__(q2, "filter", kwargs_get(kwargs, "filter"))
        q4 == __setattr__(q3, "sort", kwargs_get(kwargs, "sort"))
    IN __setattr__(q4, "projection", kwargs_get(kwargs, "projection"))

\* keyword arguments of the constructor; filter_ is the name its docstring uses
KwargKeys == {"skip", "filter", "filter_"}

Kwargs == UNION {[keys -> {"None", "1"}] : keys \in SUBSET KwargKeys}

\* before PyMongoQuery(**kwargs)
InitMongo ==
    /\ operators = DefaultOperators
    /\ functions = DefaultFunctions
    /\ lexemes = <<>>
    /\ expr = <<>>
    /\ pc = "mongo_new"
    /\ tok_out = NotCalled
    /\ ast = NotCalled
    /\ text = NotCalled
    /\ ast2 = NotCalled
    /\ cache = <<>>
    /\ calls = 0
    /\ NoQueryParser
    /\ NoPyMongoQuery
    /\ NoThreads

\* q = PyMongoQuery(**kwargs)
NewPyMongoQuery(kwargs) ==
    /\ pc = "mongo_new"
    /\ attrs' = __init__(kwargs).attrs
    /\ items' = __init__(kwargs).items
    /\ pc' = "mongo"
    /\ UNCHANGED <<operators, functions, lexemes, expr, tok_out, ast, text, ast2, cache,
                   calls, query_vars, thread_vars>>

\* q.<name> = value
SetAttribute(name, value) ==
    /\ pc = "mongo"
    /\ attrs' = __setattr__([attrs |-> attrs, items |-> items], name, value).attrs
    /\ items' = __setattr__([attrs |-> attrs, items |-> items], name, value).items
    /\ UNCHANGED <<operators, functions, lexemes, expr, pc, tok_out, ast, text, ast2,
                   cache, calls, query_vars, thread_vars>>

\* q[key] = value
SetItem(key, value) ==
    /\ pc = "mongo"
    /\ attrs' = __setitem__([attrs |-> attrs, items |-> items], key, value).attrs
    /\ items' = __setitem__([attrs |-> attrs, items |-> items], key, value).items
    /\ UNCHANGED <<operators, functions, lexemes, expr, pc, tok_out, ast, text, ast2,
                   cache, calls, query_vars, thread_vars>>

NextMongo ==
    \/ \E kwargs \in Kwargs : NewPyMongoQuery(kwargs)
    \/ \E name \in QueryKeys, value \in QueryValues : SetAttribute(name, value)
    \/ \E key \in QueryKeys, value \in QueryValues : SetItem(key, value)

SpecMongo == InitMongo /\ [][NextMongo]_vars

\* C18: PyMongoQuery keeps attribute access and item access in sync: after
\* construction and after any sequence of attribute and item assignments on skip,
\* limit, filter, sort and projection, q.k == q[k] for each of these keys.
C18_AttributesAndItemsInSync ==
    pc = "mongo" =>
        \A key \in {"skip", "limit", "filter", "sort", "projection"} :
            /\ key \in DOMAIN items
            /\ (IF key \in DOMAIN attrs THEN attrs[key] ELSE "None") = items[key]

\* a query built with filter_ and then given limit 2 by an assignment: limit is 2
\* both ways and filter is None both ways
C18_Witness ==
    /\ pc = "mongo"
    /\ "filter_" \in DOMAIN items
    /\ attrs["limit"] = "2" /\ items["limit"] = "2"
    /\ attrs["filter"] = "None" /\ items["filter"] = "None"

----------------------------------------------------------------------------
(* FilterNode trees built by a caller and handed to evaluate *)

\* most arguments of the functions and lists of the trees
MaxArguments == 2

\* nodes without children, well-formed and not: a field left out is None
LeafNodes ==
    {[type_ |-> "literal", value |-> <<"1">>],
     [type_ |-> "literal", value |-> <<"1", ".", "5">>],
     [type_ |-> "literal", value |-> <<"1", ".", ".", "5">>],
     [type_ |-> "literal", value |-> <<"x">>],
     [type_ |-> "literal", value |-> <<"i", "t", "'", "s">>],
     [type_ |-> "literal", value |-> <<"a", "\\", "b">>],
     [type_ |-> "identifier", value |-> <<"a">>],
     [type_ |-> "literal"],
     [type_ |-> "identifier", value |-> <<>>],
     [value |-> <<"a">>],
     [type_ |-> "", value |-> <<"a">>],
     [type_ |-> "tuple", value |-> <<"a">>],
     [type_ |-> "list"],
     [type_ |-> "function", value |-> K_contains, arguments |-> <<>>],
     [type_ |-> "operator", value |-> K_eq]}

\* nodes with children, used as children in their turn
InnerNodes ==
    {[type_ |-> "operator", value |-> K_eq,
      left |-> [type_ |-> "identifier", value |-> <<"a">>],
      right |-> [type_ |-> "literal", value |-> <<"1">>]],
     [type_ |-> "operator", value |-> K_eq,
      left |-> [type_ |-> "identifier", value |-> <<"a">>],
      right |-> [type_ |-> "literal"]],
     [type_ |-> "operator", value |-> K_not, left |-> [type_ |-> "literal"],
      right |-> [type_ |-> "identifier", value |-> <<"a">>]],
     [type_ |-> "operator", value |-> K_not, right |-> [type_ |-> "tuple"]],
     [type_ |-> "list",
      arguments |-> <<[type_ |-> "literal", value |-> <<"1">>], [type_ |-> "identifier"]>>]}

ChildNodes == LeafNodes \cup InnerNodes

\* a record of the fields that are set; children is a set of records to choose from
OperatorNodes ==
    UNION {
        {[type_ |-> "operator", value |-> value, left |-> left, right |-> right],
         [type_ |-> "operator", value |-> value, left |-> left],
         [type_ |-> "operator", value |-> value, right |-> right],
         [type_ |-> "operator", left |-> left, right |-> right]} :
        value \in {K_eq, K_not}, left \in ChildNodes, right \in ChildNodes}

ArgumentLists == UNION {[1..n -> ChildNodes] : n \in 0..MaxArguments}

CallNodes ==
    UNION {
        {[type_ |-> "list", arguments |-> arguments],
         [type_ |-> "function", value |-> K_contains, arguments |-> arguments],
         [type_ |-> "function", arguments |-> arguments]} :
        arguments \in ArgumentLists}

Trees == ChildNodes \cup OperatorNodes \cup CallNodes

\* a parser and a tree a caller built: ast holds the tree evaluate is called on
InitTree ==
    /\ operators = DefaultOperators
    /\ functions = DefaultFunctions
    /\ lexemes = <<>>
    /\ expr = <<>>
    /\ pc = "parsed"
    /\ tok_out = NotCalled
    /\ \E tree \in Trees : ast = [ok |-> TRUE, node |-> tree]
    /\ text = NotCalled
    /\ ast2 = NotCalled
    /\ cache = <<>>
    /\ calls = 0
    /\ NoQueryParser
    /\ NoPyMongoQuery
    /\ NoThreads

NextTree == Evaluate

SpecTree == InitTree /\ [][NextTree]_vars

\* the node itself is malformed: its kind is unset or unknown, it is a literal or
\* identifier without a value, an operator other than not without its left or
\* right child, a not without its right child, a function or list without arguments
Defective(node) ==
    \/ "type_" \notin DOMAIN node
    \/ node.type_ \notin {"literal", "identifier", "operator", "function", "list"}
    \/ /\ node.type_ \in {"literal", "identifier"}
       /\ ("value" \notin DOMAIN node \/ node.value = <<>>)
    \/ /\ node.type_ = "operator"
       /\ "right" \notin DOMAIN node
    \/ /\ node.type_ = "operator"
       /\ ("value" \notin DOMAIN node \/ node.value # <<"n", "o", "t">>)
       /\ "left" \notin DOMAIN node
    \/ /\ node.type_ \in {"function", "list"}
       /\ ("arguments" \notin DOMAIN node \/ node.arguments = <<>>)

\* the node or a descendant evaluate reaches from it is malformed
RECURSIVE Malformed(_)
Malformed(node) ==
    \/ Defective(node)
    \/ /\ node.type_ = "operator"
       /\ \/ Malformed(node.right)
          \/ /\ ("value" \notin DOMAIN node \/ node.value # <<"n", "o", "t">>)
             /\ Malformed(node.left)
    \/ /\ node.type_ \in {"function", "list"}
       /\ \E i \in 1..Len(node.arguments) : Malformed(node.arguments[i])

\* C19: evaluate fails fast on malformed trees: whenever the node or a descendant
\* it reaches has an unset or unknown kind, is a literal or identifier without a
\* value, an operator missing a required child, or a function or list with no
\* arguments, evaluate raises ParseError and returns no text.
C19_MalformedTreesRaise ==
    (pc = "evaluated" /\ Malformed(ast.node)) =>
        (~text.ok /\ text.error = "ParseError")

\* a eq (not <a literal without value>) was evaluated and raised ParseError
C19_Witness ==
    /\ pc = "evaluated"
    /\ ast.node = [type_ |-> "operator", value |-> K_eq,
                   left |-> [type_ |-> "identifier", value |-> <<"a">>],
                   right |-> [type_ |-> "operator", value |-> K_not,
                              right |-> [type_ |-> "tuple"]]]
    /\ text = [ok |-> FALSE, error |-> "ParseError",
               message |-> "unknown node type", detail |-> <<"tuple">>]

----------------------------------------------------------------------------
(* Two threads calling tokenize on one ODataFilterTokenizer instance.  The
   cursor self.__position and the list self.__tokens are attributes of the
   instance; expr is a local of each call.  A thread is switched out only
   between two iterations of the while loop, which is one of the schedules
   the interpreter can produce. *)

Threads == {1, 2}

\* expressions the threads tokenize
ThreadExprs ==
    {assemble(<<W_a, K_eq, W_1>>), W_b, assemble(<<W_b, K_ne, W_x>>),
     W_group, <<"a", " ", "$">>}

\* a thread that has not called tokenize yet
NewThread(e) == [expr |-> e, pc |-> "start", result |-> NotCalled]

InitThreads ==
    /\ operators = DefaultOperators
    /\ functions = DefaultFunctions
    /\ lexemes = <<>>
    /\ expr = <<>>
    /\ pc = "threads"
    /\ tok_out = NotCalled
    /\ ast = NotCalled
    /\ text = NotCalled
    /\ ast2 = NotCalled
    /\ cache = <<>>
    /\ calls = 0
    /\ NoQueryParser
    /\ NoPyMongoQuery
    /\ __position = 0
    /\ __tokens = <<>>
    /\ \E e1 \in ThreadExprs : \E e2 \in ThreadExprs \ {e1} :
        threads = <<NewThread(e1), NewThread(e2)>>

\* tokenize, lines 140-141: self.__position = 0; self.__tokens = []
ThreadStart(t) ==
    /\ pc = "threads"
    /\ threads[t].pc = "start"
    /\ __position' = 0
    /\ __tokens' = <<>>
    /\ threads' = [threads EXCEPT ![t].pc = "loop"]
    /\ UNCHANGED <<operators, functions, lexemes, expr, pc, tok_out, ast, text, ast2,
                   cache, calls>>
    /\ UNCHANGED <<query_vars, mongo_vars>>

\* tokenize, lines 143-214: one iteration of the while loop on the thread's own
\* expr, with the cursor and the token list of the instance
ThreadIterate(t) ==
    /\ pc = "threads"
    /\ threads[t].pc = "loop"
    /\ __position < Len(threads[t].expr)
    /\ LET step == tokenize_iteration(threads[t].expr, __position, __tokens,
                                      operators, functions) IN
       IF step.ok
       THEN /\ __position' = step.position
            /\ __tokens' = step.tokens
            /\ UNCHANGED threads
       ELSE /\ threads' = [threads EXCEPT ![t].pc = "done", ![t].result = step]
            /\ UNCHANGED <<__position, __tokens>>
    /\ UNCHANGED <<operators, functions, lexemes, expr, pc, tok_out, ast, text, ast2,
                   cache, calls>>
    /\ UNCHANGED <<query_vars, mongo_vars>>

\* tokenize, lines 143 and 216: the loop test fails and self.__tokens is returned
ThreadReturn(t) ==
    /\ pc = "threads"
    /\ threads[t].pc = "loop"
    /\ ~(__position < Len(threads[t].expr))
    /\ threads' = [threads EXCEPT ![t].pc = "done",
                                  ![t].result = [ok |-> TRUE, tokens |-> __tokens]]
    /\ UNCHANGED <<__position, __tokens>>
    /\ UNCHANGED <<operators, functions, lexemes, expr, pc, tok_out, ast, text, ast2,
                   cache, calls>>
    /\ UNCHANGED <<query_vars, mongo_vars>>

NextThreads ==
    \/ \E t \in Threads : ThreadStart(t)
    \/ \E t \in Threads : ThreadIterate(t)
    \/ \E t \in Threads : ThreadReturn(t)

SpecThreads == InitThreads /\ [][NextThreads]_vars

\* C20: concurrent calls do not interfere: when two threads call tokenize on the
\* same tokenizer with different expressions, under every interleaving of their
\* steps each call returns exactly the result it returns when run alone.
C20_ConcurrentCallsDoNotInterfere ==
    pc = "threads" =>
        \A t \in Threads :
            threads[t].pc = "done" =>
                threads[t].result = tokenize(threads[t].expr, operators, functions)

----------------------------------------------------------------------------
----------------------------------------------------------------------------
(* Claims about the shape of the tree and the tokens consumed, checked under Spec *)

\* every operator node of the tree has the children its operator takes: `not`
\* its right child only, any other operator both children
RECURSIVE OperatorShape(_)
OperatorShape(node) ==
    /\ node.type_ = "operator" =>
        /\ "right" \in DOMAIN node
        /\ OperatorShape(node.right)
        /\ IF node.value = <<"n", "o", "t">>
           THEN "left" \notin DOMAIN node
           ELSE "left" \in DOMAIN node
        /\ "left" \in DOMAIN node => OperatorShape(node.left)
    /\ "arguments" \in DOMAIN node =>
        \A i \in 1..Len(node.arguments) : OperatorShape(node.arguments[i])

\* C22: operator node shape: in every tree parse returns, each `not` node has its
\* right child and no left child, and each other operator node has both children,
\* also when `not` appears after an operand.
C22_OperatorNodeShape ==
    (pc = "parsed" /\ ast.ok) => OperatorShape(ast.node)

\* the number of '(' tokens still open at the end of the token list
RECURSIVE OpenParentheses(_, _)
OpenParentheses(tokens, depth) ==
    IF tokens = <<>> THEN depth
    ELSE IF Head(tokens).type_ = "LPAREN" THEN OpenParentheses(Tail(tokens), depth + 1)
    ELSE IF Head(tokens).type_ = "RPAREN" /\ depth > 0
    THEN OpenParentheses(Tail(tokens), depth - 1)
    ELSE OpenParentheses(Tail(tokens), depth)

\* the tokens of the expression end with a '(' still open
EndsUnclosed ==
    LET scanned == tokenize(expr, operators, functions) IN
    scanned.ok /\ OpenParentheses(scanned.tokens, 0) > 0

\* parse returned a tree and _parse_expression left no token unconsumed
ConsumedAll ==
    LET parsed == parse_tokens(expr, operators, functions) IN
    parsed.ok /\ parsed.tokens = <<>>

\* C23: an unclosed '(' is always an error: parse never reads a token sequence
\* that ends with a '(' still open (of a sub-expression, a function argument list
\* or an `in` list) to its end and returns a tree.
C23_UnclosedParenthesisRaises ==
    (pc = "parsed" /\ EndsUnclosed) => ~(ast.ok /\ ConsumedAll)

\* C24: parse accepts an expression only if it consumes the whole token
\* sequence: whenever parse returns a tree, no token is left unconsumed.
C24_WholeInputConsumed ==
    (pc = "parsed" /\ ast.ok) => ConsumedAll

\* C25: `in` without a parenthesized list is a generic binary operator:
\* parse("a in b") returns operator(in, identifier(a), b).
C25_InWithoutListIsBinary ==
    (pc = "parsed" /\ Len(lexemes) = 3 /\ lexemes[1] \in {W_a, W_b}
        /\ lexemes[2] = K_in /\ lexemes[3] \in {W_a, W_b, W_1, W_x}) =>
        ast = Returned(Binary(K_in, OperandNode[lexemes[1]], OperandNode[lexemes[3]]))

\* C27: binary operators of equal precedence associate to the left:
\* parse("a op1 b op2 c") returns operator(op2, operator(op1, a, b), c).
C27_EqualPrecedenceAssociatesLeft ==
    (pc = "parsed" /\ Len(lexemes) = 5 /\ lexemes \in AssociativityInputs) =>
        ast = Returned(Binary(lexemes[4],
                  Binary(lexemes[2], OperandNode[lexemes[1]], OperandNode[lexemes[3]]),
                  OperandNode[lexemes[5]]))

\* left association wherever no `in` follows an identifier, the case in which
\* _parse_primary drops the operator
AssociatesLeftWhereInIsKept ==
    (pc = "parsed" /\ Len(lexemes) = 5 /\ lexemes \in AssociativityInputs
        /\ ~(lexemes[2] = K_in /\ lexemes[1] = W_a)
        /\ ~(lexemes[4] = K_in /\ lexemes[3] = W_b)) =>
        ast = Returned(Binary(lexemes[4],
                  Binary(lexemes[2], OperandNode[lexemes[1]], OperandNode[lexemes[3]]),
                  OperandNode[lexemes[5]]))

----------------------------------------------------------------------------
(* A claim about the text of a literal, checked under SpecTree *)

\* the value is all digits, or digits with a single '.'
NumericValue(value) ==
    LET digits == {i \in 1..Len(value) : value[i] \in {"0", "1", "2", "3", "4", "5", "6", "7", "8", "9"}}
        dots == {i \in 1..Len(value) : value[i] = "."}
    IN /\ digits # {}
       /\ digits \cup dots = 1..Len(value)
       /\ Cardinality(dots) <= 1

\* C26: literal rendering: for a literal node whose value is not numeric,
\* evaluate returns a single quote, the value unchanged and a single quote, with
\* no escaping and no other quote character; a numeric value is returned verbatim.
C26_LiteralInSingleQuotes ==
    (pc = "evaluated" /\ DOMAIN ast.node = {"type_", "value"}
        /\ ast.node.type_ = "literal" /\ ast.node.value # <<>>) =>
        text = [ok |-> TRUE,
                text |-> IF NumericValue(ast.node.value)
                         THEN ast.node.value
                         ELSE <<"'">> \o ast.node.value \o <<"'">>]

----------------------------------------------------------------------------
(* utils/beanie.py: _BeanieFilterNodeParser, the translation of a tree into a
   MongoDB filter.  A FilterNode is an object: a method that returns the node it
   was given returns that very object, and an assignment to a field of it is seen
   by every holder of the tree.  A translation therefore yields what the method
   returns or raises (out), whether the node returned is the object it was given
   (same), and the given tree as the call leaves it (input). *)

K_nin == <<"n", "i", "n">>
K_nor == <<"n", "o", "r">>

ODATA_COMPARISON_OPERATORS == {K_eq, K_ne, K_gt, K_ge, K_lt, K_le, K_in, K_nin}

ODATA_LOGICAL_OPERATORS == {K_and, K_or, K_not, K_nor}

\* a dict of one entry, {key: value}
Dict(key, value) == [key |-> key, value |-> value]

\* FilterNode(type_='value', value=value)
value_node(value) == [type_ |-> "value", value |-> value]

\* a field that is None, where a text is expected: equal to no text
None == <<"None">>

\* node.value, None when unset
value_of(node) == IF "value" \in DOMAIN node THEN node.value ELSE None

\* [arg.value for arg in node.arguments]
argument_values(node) == [i \in 1..Len(node.arguments) |-> value_of(node.arguments[i])]

\* an operand handed to an operator handler: None, or a node and whether it is
\* the object of the input tree
NoOperand == [none |-> TRUE]
Operand(node, same) == [none |-> FALSE, node |-> node, same |-> same]

\* `not operand.value`: a node of the input tree holds a text or None, a node
\* built by the translation holds a dict of one entry
no_value(operand) == operand.same /\ falsy(operand.node, "value")

\* what a translating method returns: the node, whether it is the very object it
\* was given, and the given tree after the call
Translated(node, same, input) ==
    [out |-> [ok |-> TRUE, node |-> node], same |-> same, input |-> input]

\* what a translating method raises, and the given tree after the call
Raised(error, input) == [out |-> error, same |-> FALSE, input |-> input]

\* UnexpectedNullOperand(operator)
UnexpectedNullOperand(operator) ==
    [ok |-> FALSE, error |-> "UnexpectedNullOperand", operator |-> operator]

\* an exception of the interpreter: TypeError (a dict used as a dict key),
\* AttributeError (popitem of a str)
BuiltinError(name) == [ok |-> FALSE, error |-> name]

\* _to_mongo_comparison_operator(operator)
_to_mongo_comparison_operator(operator) ==
    IF operator = K_ge THEN <<"$", "g", "t", "e">>
    ELSE IF operator = K_le THEN <<"$", "l", "t", "e">>
    ELSE IF operator \in ODATA_COMPARISON_OPERATORS \cup ODATA_LOGICAL_OPERATORS
    THEN <<"$">> \o operator
    ELSE None

\* {left.value: value}: a dict cannot be a key
keyed(left, value) ==
    IF left.same
    THEN [ok |-> TRUE, node |-> value_node(Dict(left.node.value, value))]
    ELSE BuiltinError("TypeError")

\* right.value = [arg.value for arg in right.arguments]
set_list_value(node) ==
    [name \in DOMAIN node \cup {"value"} |->
        IF name = "value" THEN argument_values(node) ELSE node[name]]

\* _parse_operator_node(op_node, left, right): what it returns or raises, and
\* the object right as it leaves it
_parse_operator_node(op_node, left, right) ==
    LET value == value_of(op_node) IN
    IF value \in ODATA_COMPARISON_OPERATORS
    THEN
        IF left.none \/ right.none
        THEN [out |-> UnexpectedNullOperand(value), right |-> right]
        ELSE IF value \in {K_in, K_nin}
        THEN
            IF no_value(left) \/ falsy(right.node, "arguments")
            THEN [out |-> UnexpectedNullOperand(value), right |-> right]
            ELSE
                [out |-> keyed(left, Dict(_to_mongo_comparison_operator(value),
                                          argument_values(right.node))),
                 right |-> Operand(set_list_value(right.node), right.same)]
        ELSE IF no_value(left) \/ no_value(right)
        THEN [out |-> UnexpectedNullOperand(value), right |-> right]
        ELSE [out |-> keyed(left, Dict(_to_mongo_comparison_operator(value),
                                       right.node.value)),
              right |-> right]
    ELSE IF value = K_has
    THEN
        IF left.none \/ right.none \/ no_value(left) \/ no_value(right)
        THEN [out |-> UnexpectedNullOperand(value), right |-> right]
        ELSE [out |-> keyed(left, right.node.value), right |-> right]
    ELSE IF value \in {K_and, K_or}
    THEN
        IF left.none \/ right.none \/ no_value(left) \/ no_value(right)
        THEN [out |-> UnexpectedNullOperand(value), right |-> right]
        ELSE [out |-> [ok |-> TRUE,
                       node |-> value_node(Dict(_to_mongo_comparison_operator(value),
                                                <<left.node.value, right.node.value>>))],
              right |-> right]
    ELSE IF value \in ODATA_LOGICAL_OPERATORS
    THEN
        IF right.none \/ no_value(right)
        THEN [out |-> UnexpectedNullOperand(value), right |-> right]
        ELSE IF right.same
        THEN [out |-> BuiltinError("AttributeError"), right |-> right]
        ELSE [out |-> [ok |-> TRUE,
                       node |-> value_node(Dict(right.node.value.key,
                                    Dict(_to_mongo_comparison_operator(value),
                                         right.node.value.value)))],
              right |-> right]
    ELSE [out |-> ParseError("unknown operator", <<value>>), right |-> right]

\* the value _parse_function_node builds: {field: {'$regex': pattern, '$options': 'i'}}
regex_filter(field, pattern) ==
    value_node(Dict(field, [regex |-> pattern, options |-> <<"i">>]))

\* _parse_function_node(func_node)
_parse_function_node(func_node) ==
    IF falsy(func_node, "value")
    THEN ParseError("unexpected null function name", <<>>)
    ELSE IF falsy(func_node, "arguments")
    THEN ParseError("unexpected empty arguments for function", <<func_node.value>>)
    ELSE IF Len(func_node.arguments) # 2
    THEN ParseError("expected 2 arguments for function", <<func_node.value>>)
    ELSE IF falsy(func_node.arguments[1], "value") \/ falsy(func_node.arguments[2], "value")
    THEN ParseError("unexpected null operand for function", <<func_node.value>>)
    ELSE IF func_node.value = K_startswith
    THEN [ok |-> TRUE,
          node |-> regex_filter(func_node.arguments[1].value,
                                <<"^">> \o func_node.arguments[2].value)]
    ELSE IF func_node.value = K_endswith
    THEN [ok |-> TRUE,
          node |-> regex_filter(func_node.arguments[1].value,
                                func_node.arguments[2].value \o <<"$">>)]
    ELSE IF func_node.value = K_contains
    THEN [ok |-> TRUE,
          node |-> regex_filter(func_node.arguments[1].value,
                                func_node.arguments[2].value)]
    ELSE ParseError("unknown function", <<func_node.value>>)

\* the node with its child replaced by what a translation left of it
with_child(node, name, child) == [node EXCEPT ![name] = child]

\* the operand a translated child is, and the child as the translation left it
operand_of(translated) == Operand(translated.out.node, translated.same)

RECURSIVE _filter_node_to_beanie_filter(_)

\* _filter_node_to_beanie_filter, line 69: the operator node with both operands
beanie_operator(filter_node, left, right) ==
    LET call == _parse_operator_node(filter_node, left, right) IN
    [out |-> call.out,
     same |-> FALSE,
     input |-> IF ~right.none /\ right.same
               THEN with_child(filter_node, "right", call.right.node)
               ELSE filter_node]

\* _filter_node_to_beanie_filter, lines 65-69: the right operand
beanie_right(filter_node, left, right) ==
    IF ~right.out.ok
    THEN Raised(right.out, with_child(filter_node, "right", right.input))
    ELSE beanie_operator(with_child(filter_node, "right", right.input), left,
                         operand_of(right))

\* _filter_node_to_beanie_filter, lines 61-67: the left operand, then the right
beanie_left(filter_node, left) ==
    IF "right" \in DOMAIN filter_node
    THEN beanie_right(filter_node, left, _filter_node_to_beanie_filter(filter_node.right))
    ELSE beanie_operator(filter_node, left, NoOperand)

\* _filter_node_to_beanie_filter, lines 61-63: a translated left child
beanie_after_left(filter_node, left) ==
    IF ~left.out.ok
    THEN Raised(left.out, with_child(filter_node, "left", left.input))
    ELSE beanie_left(with_child(filter_node, "left", left.input), operand_of(left))

\* _filter_node_to_beanie_filter(filter_node)
_filter_node_to_beanie_filter(filter_node) ==
    IF filter_node.type_ = "function"
    THEN [out |-> _parse_function_node(filter_node), same |-> FALSE, input |-> filter_node]
    ELSE IF filter_node.type_ = "operator"
    THEN
        IF "left" \in DOMAIN filter_node
        THEN beanie_after_left(filter_node,
                               _filter_node_to_beanie_filter(filter_node.left))
        ELSE beanie_left(filter_node, NoOperand)
    ELSE Translated(filter_node, TRUE, filter_node)

\* the value of the node a translation returned
value_returned(translated) ==
    IF translated.out.ok
    THEN [out |-> [ok |-> TRUE, value |-> value_of(translated.out.node)],
          input |-> translated.input]
    ELSE [out |-> translated.out, input |-> translated.input]

\* _BeanieFilterNodeParser.parse_filter(filter_node): the filter it returns or the
\* error it raises, and the given tree after the call
parse_filter(filter_node) == value_returned(_filter_node_to_beanie_filter(filter_node))

----------------------------------------------------------------------------
(* utils/filter_parsers/base_filter_parser.py: BaseFilterNodeParser.  The
   operator and function names and arities come from definitions.py; the
   abstract parse_* methods are those of a backend. *)

K_substring == <<"s", "u", "b", "s", "t", "r", "i", "n", "g">>
K_tolower == <<"t", "o", "l", "o", "w", "e", "r">>
K_toupper == <<"t", "o", "u", "p", "p", "e", "r">>

COMPARISON_OPERATORS == {K_eq, K_ne, K_gt, K_ge, K_lt, K_le, K_in, K_nin}

LOGICAL_OPERATORS == {K_and, K_or, K_not, K_nor}

FUNCTION_ARITY ==
    [name \in {K_startswith, K_endswith, K_contains, K_substring, K_tolower, K_toupper} |->
        IF name = K_substring THEN 3
        ELSE IF name \in {K_tolower, K_toupper} THEN 1
        ELSE 2]

\* __init__: _functions_map, the argument types of each function after its field
arg_types ==
    [name \in DOMAIN FUNCTION_ARITY |->
        IF name = K_substring THEN <<"int", "int">>
        ELSE IF name \in {K_tolower, K_toupper} THEN <<>>
        ELSE <<"str">>]

\* _get_value_filter_node(value)
_get_value_filter_node(value) == [type_ |-> "value", value |-> value]

\* the abstract parse_* methods: a backend builds its filter from what it is
\* given and returns it in a new node
backend_filter(method, arguments) ==
    [ok |-> TRUE,
     node |-> _get_value_filter_node([method |-> method, arguments |-> arguments])]

\* the errors of the translation, each with what it names
TranslationError(name, detail) == [ok |-> FALSE, error |-> name, detail |-> detail]

\* _get_function_node, lines 292-301: the arguments converted to their types,
\* or the error raised
RECURSIVE convert_arguments(_, _, _, _)
convert_arguments(function_name, types, arguments, args) ==
    IF types = <<>>
    THEN [ok |-> TRUE, args |-> args]
    ELSE IF "value" \notin DOMAIN Head(arguments)
    THEN TranslationError("UnexpectedNullOperandError", <<function_name>>)
    ELSE IF Head(types) = "int" /\ ~int(Head(arguments).value).ok
    THEN TranslationError("UnexpectedTypeError",
                          <<function_name, Head(types), Head(arguments).value>>)
    ELSE convert_arguments(function_name, Tail(types), Tail(arguments),
                           Append(args, IF Head(types) = "int"
                                        THEN int(Head(arguments).value).n
                                        ELSE Head(arguments).value))

\* _get_function_node(function_name, field, arguments)
_get_function_node(function_name, field, arguments) ==
    IF function_name \notin DOMAIN arg_types
    THEN TranslationError("UnknownFunctionError", <<function_name>>)
    ELSE IF arg_types[function_name] = <<>>
    THEN backend_filter(function_name, <<field>>)
    ELSE IF Len(arguments) # Len(arg_types[function_name])
    THEN TranslationError("UnexpectedNumberOfArgumentsError", <<function_name>>)
    ELSE
        LET converted == convert_arguments(function_name, arg_types[function_name],
                                           arguments, <<>>) IN
        IF converted.ok
        THEN backend_filter(function_name, <<field>> \o converted.args)
        ELSE converted

\* parse_function_node(func_node)
parse_function_node(func_node) ==
    IF falsy(func_node, "value")
    THEN TranslationError("UnexpectedNullFunctionNameError", <<>>)
    ELSE IF falsy(func_node, "arguments")
    THEN TranslationError("UnexpectedEmptyArgumentsError", <<func_node.value>>)
    ELSE IF func_node.value \notin DOMAIN arg_types
    THEN TranslationError("UnknownFunctionError", <<func_node.value>>)
    ELSE IF Len(func_node.arguments) # FUNCTION_ARITY[func_node.value]
    THEN TranslationError("UnexpectedNumberOfArgumentsError", <<func_node.value>>)
    ELSE IF "value" \notin DOMAIN func_node.arguments[1]
    THEN TranslationError("UnexpectedNullOperandError", <<func_node.value>>)
    ELSE _get_function_node(func_node.value, func_node.arguments[1].value,
                            Tail(func_node.arguments))

\* operand.value is None
value_is_None(operand) == "value" \notin DOMAIN operand.node

\* _parse_comparison_or_membership(operator, left, right): what it returns or
\* raises, and the object right as it leaves it
_parse_comparison_or_membership(operator, left, right) ==
    IF left.none \/ right.none
    THEN [out |-> TranslationError("UnexpectedNullOperandError", <<operator>>),
          right |-> right]
    ELSE IF operator \in {K_in, K_nin}
    THEN
        IF value_is_None(left) \/ "arguments" \notin DOMAIN right.node
        THEN [out |-> TranslationError("UnexpectedNullOperandError", <<operator>>),
              right |-> right]
        ELSE [out |-> backend_filter("parse_membership_operators",
                          <<left.node.value, operator, argument_values(right.node)>>),
              right |-> Operand(set_list_value(right.node), right.same)]
    ELSE IF value_is_None(left) \/ (operator \notin {K_eq, K_ne} /\ value_is_None(right))
    THEN [out |-> TranslationError("UnexpectedNullOperandError", <<operator>>),
          right |-> right]
    ELSE [out |-> backend_filter("parse_comparison_operators",
                      <<left.node.value, operator, value_of(right.node)>>),
          right |-> right]

\* _parse_logical(operator, left, right)
_parse_logical(operator, left, right) ==
    IF operator \in {K_and, K_or}
    THEN
        IF left.none \/ right.none \/ value_is_None(left) \/ value_is_None(right)
        THEN TranslationError("UnexpectedNullOperandError", <<operator>>)
        ELSE backend_filter("parse_and_or_operators",
                            <<left.node.value, operator, right.node.value>>)
    ELSE IF right.none \/ value_is_None(right)
    THEN TranslationError("UnexpectedNullOperandError", <<operator>>)
    ELSE backend_filter("parse_not_nor_operators", <<operator, right.node.value>>)

\* _parse_has(operator, left, right)
_parse_has(operator, left, right) ==
    IF left.none \/ right.none \/ value_is_None(left) \/ value_is_None(right)
    THEN TranslationError("UnexpectedNullOperandError", <<operator>>)
    ELSE backend_filter("parse_has_operator",
                        <<left.node.value, operator, right.node.value>>)

\* parse_operator_node(op_node, left, right): what it returns or raises, and the
\* object right as it leaves it
parse_operator_node(op_node, left, right) ==
    IF "value" \notin DOMAIN op_node
    THEN [out |-> TranslationError("UnexpectedNullOperatorError", <<>>), right |-> right]
    ELSE IF op_node.value \in COMPARISON_OPERATORS
    THEN _parse_comparison_or_membership(op_node.value, left, right)
    ELSE IF op_node.value = K_has
    THEN [out |-> _parse_has(op_node.value, left, right), right |-> right]
    ELSE IF op_node.value \in LOGICAL_OPERATORS
    THEN [out |-> _parse_logical(op_node.value, left, right), right |-> right]
    ELSE [out |-> TranslationError("UnknownOperatorError", <<op_node.value>>),
          right |-> right]

RECURSIVE node_to_filter_expr(_)

\* node_to_filter_expr, line 176: the operator node with both operands
base_operator(filter_node, left, right) ==
    LET call == parse_operator_node(filter_node, left, right) IN
    [out |-> call.out,
     same |-> FALSE,
     input |-> IF ~right.none /\ right.same
               THEN with_child(filter_node, "right", call.right.node)
               ELSE filter_node]

\* node_to_filter_expr, lines 172-176: the right operand
base_right(filter_node, left, right) ==
    IF ~right.out.ok
    THEN Raised(right.out, with_child(filter_node, "right", right.input))
    ELSE base_operator(with_child(filter_node, "right", right.input), left,
                       operand_of(right))

\* node_to_filter_expr, lines 168-174: the left operand, then the right
base_left(filter_node, left) ==
    IF "right" \in DOMAIN filter_node
    THEN base_right(filter_node, left, node_to_filter_expr(filter_node.right))
    ELSE base_operator(filter_node, left, NoOperand)

\* node_to_filter_expr, lines 168-170: a translated left child
base_after_left(filter_node, left) ==
    IF ~left.out.ok
    THEN Raised(left.out, with_child(filter_node, "left", left.input))
    ELSE base_left(with_child(filter_node, "left", left.input), operand_of(left))

\* node_to_filter_expr(filter_node)
node_to_filter_expr(filter_node) ==
    IF filter_node.type_ = "function"
    THEN [out |-> parse_function_node(filter_node), same |-> FALSE, input |-> filter_node]
    ELSE IF filter_node.type_ = "operator"
    THEN
        IF "left" \in DOMAIN filter_node
        THEN base_after_left(filter_node, node_to_filter_expr(filter_node.left))
        ELSE base_left(filter_node, NoOperand)
    ELSE Translated(filter_node, TRUE, filter_node)

\* parse, lines 144-148: the value of the node, an error when it is None
filters_of(translated) ==
    IF ~translated.out.ok
    THEN [out |-> translated.out, input |-> translated.input]
    ELSE IF "value" \notin DOMAIN translated.out.node
    THEN [out |-> TranslationError("UnexpectedNullFiltersError", <<>>),
          input |-> translated.input]
    ELSE [out |-> [ok |-> TRUE, value |-> translated.out.node.value],
          input |-> translated.input]

\* BaseFilterNodeParser.parse(filter_node): the filter it returns or the error it
\* raises, and the given tree after the call
translate(filter_node) == filters_of(node_to_filter_expr(filter_node))

----------------------------------------------------------------------------
(* A parsed tree handed to a translator *)

\* name in ( ... ) beside another condition, under not, and function calls
MembershipInputs ==
    {<<W_a, K_in, W_lparen, W_1, W_comma, W_x, W_rparen, l, W_b, c, W_1>> :
        l \in {K_and, K_or}, c \in {K_eq, K_in, K_has}}
    \cup {<<K_not, W_a, K_in, W_lparen, W_1, W_rparen>>,
          <<W_b, K_eq, W_1, K_and, W_a, K_in, W_lparen, W_x, W_rparen>>,
          <<K_contains, W_lparen, W_a, W_comma, W_x, W_rparen>>,
          <<K_contains, W_lparen, W_a, W_comma, W_x, W_rparen, K_and,
            W_a, K_in, W_lparen, W_1, W_rparen>>,
          <<K_not, K_contains, W_lparen, W_a, W_comma, W_x, W_rparen>>,
          <<K_startswith, W_lparen, W_a, W_rparen>>}

\* a tree ODataFilterParser().parse returned, about to be translated
InitTranslate ==
    /\ operators = DefaultOperators
    /\ functions = DefaultFunctions
    /\ \/ lexemes \in ShortInputs
       \/ lexemes \in InListInputs
       \/ lexemes \in LogicalInputs
       \/ lexemes \in MembershipInputs
    /\ expr = assemble(lexemes)
    /\ pc = "translator"
    /\ tok_out = NotCalled
    /\ ast = parse_body(expr, operators, functions)
    /\ ast.ok
    /\ text = NotCalled
    /\ ast2 = NotCalled
    /\ cache = <<>>
    /\ calls = 0
    /\ NoQueryParser
    /\ NoPyMongoQuery
    /\ NoThreads

\* _BeanieFilterNodeParser().parse_filter(tree): text holds what it returns or
\* raises, ast2 the tree after the call
BeanieParseFilter ==
    /\ pc = "translator"
    /\ LET call == parse_filter(ast.node) IN
        /\ text' = call.out
        /\ ast2' = [ok |-> TRUE, node |-> call.input]
    /\ pc' = "beanie"
    /\ UNCHANGED <<operators, functions, lexemes, expr, tok_out, ast, cache, calls>>
    /\ UNCHANGED <<query_vars, mongo_vars, thread_vars>>

\* BaseFilterNodeParser.parse(tree) of a backend's parser
BaseParse ==
    /\ pc = "translator"
    /\ LET call == translate(ast.node) IN
        /\ text' = call.out
        /\ ast2' = [ok |-> TRUE, node |-> call.input]
    /\ pc' = "base"
    /\ UNCHANGED <<operators, functions, lexemes, expr, tok_out, ast, cache, calls>>
    /\ UNCHANGED <<query_vars, mongo_vars, thread_vars>>

NextTranslate == BeanieParseFilter \/ BaseParse

SpecTranslate == InitTranslate /\ [][NextTranslate]_vars

\* C21: AST-to-backend translation does not mutate its input: after a translator
\* ran over a parsed tree, every node of the tree is unchanged, the `list` node on
\* the right of an `in` operator included.
C21_TranslationLeavesTreeUnchanged ==
    pc \in {"beanie", "base"} => ast2.node = ast.node

----------------------------------------------------------------------------
(* utils/pymongo.py: get_query_from_options *)

\* pymongo.ASCENDING and pymongo.DESCENDING
ASCENDING == 1
DESCENDING == 0 - 1

\* `if options.<field>` of a field that holds a text or a list: set and not empty
filled(opts, field) == field \in DOMAIN opts /\ opts[field] # <<>>

\* {'$or': [{field: {'$regex': options.search}} for field in search_fields]}
search_filter(search, search_fields) ==
    Dict(<<"$", "o", "r">>,
         [i \in 1..Len(search_fields) |->
            Dict(search_fields[i], Dict(<<"$", "r", "e", "g", "e", "x">>, search))])

\* get_query_from_options, lines 108-113: query.filter = {'$or': [...]}
search_only(q, search, search_fields) ==
    __setattr__(q, "filter", search_filter(search, search_fields))

\* get_query_from_options, lines 115-120: the (field, direction) pairs
sort_args(orderby) ==
    [i \in 1..Len(orderby) |->
        <<orderby[i].field,
          IF orderby[i].direction = D_desc THEN DESCENDING ELSE ASCENDING>>]

\* get_query_from_options, lines 108-125: after the filter
after_filter(q, opts, search_fields, parse_select) ==
    LET q1 == IF filled(opts, "search") /\ search_fields # <<>>
              THEN search_only(q, opts.search, search_fields)
              ELSE q
        q2 == IF filled(opts, "orderby")
              THEN __setattr__(q1, "sort", sort_args(opts.orderby))
              ELSE q1
    IN IF filled(opts, "select") /\ parse_select
       THEN __setattr__(q2, "projection", opts.select)
       ELSE q2

\* get_query_from_options, lines 103-106: the translated filter, or its error
with_filter(q, filters, opts, search_fields, parse_select) ==
    IF filters.ok
    THEN [ok |-> TRUE,
          query |-> after_filter(__setattr__(q, "filter", filters.value), opts,
                                 search_fields, parse_select)]
    ELSE filters

\* get_query_from_options(options, search_fields, parse_select): the PyMongoQuery
\* returned or the error raised
get_query_from_options(opts, search_fields, parse_select) ==
    LET q0 == __init__(<<>>)
        q1 == IF "skip" \in DOMAIN opts /\ opts.skip # 0
              THEN __setattr__(q0, "skip", opts.skip) ELSE q0
        q2 == IF "top" \in DOMAIN opts /\ opts.top # 0
              THEN __setattr__(q1, "limit", opts.top) ELSE q1
    IN IF "filter_" \in DOMAIN opts
       THEN with_filter(q2, translate(opts.filter_).out, opts, search_fields, parse_select)
       ELSE [ok |-> TRUE, query |-> after_filter(q2, opts, search_fields, parse_select)]

----------------------------------------------------------------------------
(* Options parsed from a query string and turned into a PyMongoQuery *)

T_in_list == <<"a", " ", "i", "n", " ", "(", "1", ")">>

\* values of the options get_query_from_options reads; none leaves the key out
OptionValues ==
    [key \in {"$filter", "$search", "$skip", "$top", "$orderby", "$select"} |->
        CASE key = "$filter" -> {T_filter, T_in_list}
          [] key = "$search" -> {W_a, T_padded}
          [] key = "$skip" -> {T_0, T_2}
          [] key = "$top" -> {T_2}
          [] key = "$orderby" -> {T_sorted, W_a}
          [] key = "$select" -> {T_list}]

\* the entry of key with the value, no entry for none
OptionEntries(key) ==
    {<<>>} \cup {<<[key |-> key, values |-> <<value>>]>> : value \in OptionValues[key]}

OptionInputs ==
    {f \o s \o k \o t \o o \o c :
        f \in OptionEntries("$filter"), s \in OptionEntries("$search"),
        k \in OptionEntries("$skip"), t \in OptionEntries("$top"),
        o \in OptionEntries("$orderby"), c \in OptionEntries("$select")}

SearchFields == {<<>>, <<W_a>>, <<W_a, W_b>>}

\* a new ODataQueryParser() and the mapping to parse
InitOptions ==
    /\ operators = DefaultOperators
    /\ functions = DefaultFunctions
    /\ lexemes = <<>>
    /\ expr = <<>>
    /\ pc = "query"
    /\ tok_out = NotCalled
    /\ ast = NotCalled
    /\ text = NotCalled
    /\ ast2 = NotCalled
    /\ cache = <<>>
    /\ calls = 0
    /\ NoPyMongoQuery
    /\ NoThreads
    /\ supported_formats = init_supported_formats(<<>>)
    /\ query_params \in OptionInputs
    /\ options = NotCalled

\* get_query_from_options(options, search_fields, parse_select) on the parsed
\* options: the query in attrs and items, lexemes the search_fields given
GetQueryFromOptions(search_fields, parse_select) ==
    /\ pc = "answered"
    /\ options.ok
    /\ LET call == get_query_from_options(options.options, search_fields, parse_select) IN
        /\ text' = IF call.ok THEN [ok |-> TRUE] ELSE call
        /\ attrs' = IF call.ok THEN call.query.attrs ELSE attrs
        /\ items' = IF call.ok THEN call.query.items ELSE items
    /\ lexemes' = search_fields
    /\ pc' = "mongo_query"
    /\ UNCHANGED <<operators, functions, expr, tok_out, ast, ast2, cache, calls>>
    /\ UNCHANGED <<query_vars, thread_vars>>

NextOptions ==
    \/ ParseQueryParams
    \/ \E search_fields \in SearchFields : \E parse_select \in BOOLEAN :
        GetQueryFromOptions(search_fields, parse_select)

SpecOptions == InitOptions /\ [][NextOptions]_vars

\* C30: get_query_from_options combines $filter and $search: with a filter tree,
\* a search text and search fields, the filter of the query returned is not the
\* search condition alone; the $filter condition is not dropped.
C30_FilterAndSearchCombined ==
    (pc = "mongo_query" /\ text.ok /\ "filter_" \in DOMAIN options.options
        /\ "search" \in DOMAIN options.options /\ options.options.search # <<>>
        /\ lexemes # <<>>) =>
        items["filter"] # [key |-> <<"$", "o", "r">>,
                           value |-> [i \in 1..Len(lexemes) |->
                                [key |-> lexemes[i],
                                 value |-> [key |-> <<"$", "r", "e", "g", "e", "x">>,
                                            value |-> options.options.search]]]]

----------------------------------------------------------------------------
(* A claim about the progress of the loops, checked under Spec *)

\* the tokens of the expression, none when the tokenizer raises
TokensOf(e, ops, fns) ==
    LET out == tokenize(e, ops, fns) IN IF out.ok THEN out.tokens ELSE <<>>

\* the token lists the parser's loops can hold: the tails of the token list
Suffixes(tokens) == {SubSeq(tokens, i, Len(tokens)) : i \in 1..(Len(tokens) + 1)}

\* the precedences _parse_expression is called with
Precedences == {0} \cup {OPERATOR_PRECEDENCE[name] + 1 : name \in DOMAIN OPERATOR_PRECEDENCE}

\* an iteration of the tokenize loop entered at position p raises or leaves the
\* cursor behind p
CursorAdvances(e, ops, fns) ==
    \A p \in 0..(Len(e) - 1) :
        LET step == tokenize_iteration(e, p, <<>>, ops, fns) IN
        step.ok => step.position > p /\ step.position <= Len(e)

\* _parse_expression, which every iteration of the operator loop, the `in` list
\* loop and the argument loop calls once, raises or leaves fewer tokens than it
\* was given, all of them tokens it was given
TokensConsumed(tokens) ==
    \A s \in Suffixes(tokens), precedence \in Precedences :
        LET out == _parse_expression(s, precedence) IN
        out.ok => Len(out.tokens) < Len(s) /\ out.tokens \in Suffixes(s)

\* C28: tokenizing and parsing terminate: each iteration of the tokenize loop
\* strictly advances the cursor, and each iteration of the parser's operator
\* loop, `in`-list loop and function-argument loop consumes at least one token.
C28_LoopsAdvance ==
    pc = "parsed" =>
        /\ CursorAdvances(expr, operators, functions)
        /\ TokensConsumed(TokensOf(expr, operators, functions))

\* an `in` list of two values was parsed, one loop iteration for each value
C28_Witness ==
    /\ pc = "parsed"
    /\ ast.ok
    /\ Len(TokensOf(expr, operators, functions)) >= 7
    /\ CursorAdvances(expr, operators, functions)
    /\ ast.node.type_ = "operator"
    /\ ast.node.value = K_in
    /\ Len(ast.node.right.arguments) = 2

----------------------------------------------------------------------------
(* The tree a parse call returned is changed in place by its caller *)

\* expressions parsed again after a translator ran over their tree
SharedInputs == {assemble(words) : words \in MembershipInputs}

\* the cache once the FilterNode it holds under key was changed in place: the
\* lru_cache stores and returns a reference to the node, not a copy of it
cache_store(c, key, node) ==
    [i \in 1..Len(c) |-> IF c[i].key = key THEN [key |-> key, value |-> node] ELSE c[i]]

\* a new ODataFilterParser()
InitShared ==
    /\ operators = DefaultOperators
    /\ functions = DefaultFunctions
    /\ lexemes = <<>>
    /\ expr = <<>>
    /\ pc = "cache"
    /\ tok_out = NotCalled
    /\ ast = NotCalled
    /\ text = NotCalled
    /\ ast2 = NotCalled
    /\ cache = <<>>
    /\ calls = 0
    /\ NoQueryParser
    /\ NoPyMongoQuery
    /\ NoThreads

\* tree = parser.parse(e), one of a sequence of calls on the parser
SharedParse(e) ==
    /\ pc \in {"cache", "returned", "changed"}
    /\ calls < MaxCalls
    /\ expr' = e
    /\ LET call == parse(cache, e, operators, functions) IN
        /\ ast' = call.out
        /\ cache' = call.cache
    /\ calls' = calls + 1
    /\ pc' = "returned"
    /\ UNCHANGED <<operators, functions, lexemes, tok_out, text, ast2>>
    /\ UNCHANGED <<query_vars, mongo_vars, thread_vars>>

\* _BeanieFilterNodeParser().parse_filter(tree) on the tree parse returned; the
\* tree is the node the cache holds for the expression
SharedBeanieParseFilter ==
    /\ pc = "returned"
    /\ ast.ok
    /\ LET call == parse_filter(ast.node) IN
        /\ text' = call.out
        /\ ast' = [ok |-> TRUE, node |-> call.input]
        /\ cache' = cache_store(cache, expr, call.input)
    /\ pc' = "changed"
    /\ UNCHANGED <<operators, functions, lexemes, expr, tok_out, ast2, calls>>
    /\ UNCHANGED <<query_vars, mongo_vars, thread_vars>>

\* BaseFilterNodeParser.parse(tree) of a backend's parser on the tree parse returned
SharedBaseParse ==
    /\ pc = "returned"
    /\ ast.ok
    /\ LET call == translate(ast.node) IN
        /\ text' = call.out
        /\ ast' = [ok |-> TRUE, node |-> call.input]
        /\ cache' = cache_store(cache, expr, call.input)
    /\ pc' = "changed"
    /\ UNCHANGED <<operators, functions, lexemes, expr, tok_out, ast2, calls>>
    /\ UNCHANGED <<query_vars, mongo_vars, thread_vars>>

NextShared ==
    \/ \E e \in SharedInputs : SharedParse(e)
    \/ SharedBeanieParseFilter
    \/ SharedBaseParse

SpecShared == InitShared /\ [][NextShared]_vars

\* C29: results of separate parse calls are independent values: after a caller
\* changed a node of the tree one parse(e) returned in place, a later parse(e) on
\* the same parser still returns a tree equal to the one a fresh parser returns.
C29_LaterParseReturnsFreshTree ==
    pc = "returned" => ast = parse_body(expr, DefaultOperators, DefaultFunctions)

----------------------------------------------------------------------------
====
